---- MODULE Spec2Model ----
(***************************************************************************)
(* A model of the LegiRoute retrieval-and-grounding pipeline:              *)
(*   - the Article Record and its validation        (src/src/models.py)    *)
(*   - XML extraction and the ingestion run   (src/src/ingestion/parser.py)*)
(*   - the batch indexing run               (src/src/ingestion/indexing.py)*)
(*   - semantic search                           (src/src/retrieval.py)    *)
(*                                                                         *)
(* Text is a sequence of one-character strings, so that strip(), split()   *)
(* and len() are computed as Python computes them.  An optional value      *)
(* (Python's None) is a record [present, text].                            *)
(***************************************************************************)
EXTENDS Integers, Sequences, FiniteSets, TLC

(***************************************************************************)
(* Bounds of the model and constants of the program                        *)
(***************************************************************************)

\* Number of XML files of the raw dump the pipeline model walks.
NumFiles == 3

\* Model value of settings.BATCH_SIZE: the scaled-down batch size.
BATCH_SIZE == 2

\* settings.MAX_RETRIES: the attempt ceiling of the embedding call.
MAX_RETRIES == 20

\* settings.DEFAULT_TOP_K
DEFAULT_TOP_K == 5

\* settings.RELEVANCE_THRESHOLD (1.1), in tenths as every score here.
RELEVANCE_THRESHOLD == 11

\* Longest list of text fragments an element of a drawn XML document holds.
MaxFrags == 2

\* Longest query drawn for a search.
MaxQueryLen == 3

\* Largest k a caller of search passes.
MaxK == 2

\* Most hits the vector collection returns to one query.
MaxHits == 3

\* Most start-ups of a front-end or of a retriever in one behaviour.
MaxStarts == 4

\* Longest content drawn for the construction of a record.
MaxContentLen == 6

\* Longest result list drawn for the relevance filter and the formatting.
MaxResults == 3

\* Most files under a drawn directory.
MaxEntries == 2

\* Most deliveries of a drawn generation stream.
MaxChunks == 3
MaxRecords == 3

(***************************************************************************)
(* Text                                                                    *)
(***************************************************************************)

\* The characters str.strip() and str.split() treat as whitespace.
Whitespace == {" ", "\n", "\t"}

RECURSIVE LStrip(_)
LStrip(s) ==
    IF s = <<>> THEN s
    ELSE IF Head(s) \in Whitespace THEN LStrip(Tail(s)) ELSE s

RECURSIVE RStrip(_)
RStrip(s) ==
    IF s = <<>> THEN s
    ELSE IF s[Len(s)] \in Whitespace THEN RStrip(SubSeq(s, 1, Len(s) - 1)) ELSE s

\* str.strip()
Strip(s) == RStrip(LStrip(s))

\* sep.join(parts)
RECURSIVE Join(_, _)
Join(parts, sep) ==
    IF parts = <<>> THEN <<>>
    ELSE IF Len(parts) = 1 THEN parts[1]
    ELSE parts[1] \o sep \o Join(Tail(parts), sep)

\* str.split() with no argument: the maximal runs of non-whitespace.
RECURSIVE SplitFrom(_, _, _)
SplitFrom(s, word, words) ==
    IF s = <<>> THEN (IF word = <<>> THEN words ELSE Append(words, word))
    ELSE IF Head(s) \in Whitespace
         THEN SplitFrom(Tail(s), <<>>, IF word = <<>> THEN words ELSE Append(words, word))
         ELSE SplitFrom(Tail(s), Append(word, Head(s)), words)

Split(s) == SplitFrom(s, <<>>, <<>>)

\* An optional text: Some(t) or None.
Some(t) == [present |-> TRUE, text |-> t]
None == [present |-> FALSE, text |-> <<>>]

(***************************************************************************)
(* models.py: the Article Record                                           *)
(***************************************************************************)

\* The placeholder carried by a failed construction.
NoArticle ==
    [id |-> <<>>, article_number |-> <<>>, content |-> <<>>, context |-> <<>>, url |-> None]

\* Faulty variant: the length is taken without trimming.
validate_content_length_Untrimmed(v) == ~(v = <<>> \/ Len(v) < 5)

\* validate_content_length: the content passes when it is non-empty and its
\* stripped length is at least 5.
validate_content_length(v) == ~(v = <<>> \/ Len(Strip(v)) < 5)

\* TrafficLawArticle(id=..., article_number=..., content=..., context=..., url=...):
\* the four required fields are optional texts here (None fails validation).
\* The result is [ok, article]; ok = FALSE is the ValidationError.
TrafficLawArticle(id, article_number, content, context, url) ==
    IF /\ id.present /\ article_number.present /\ content.present /\ context.present
       /\ validate_content_length(content.text)
    THEN [ok |-> TRUE,
          article |-> [id |-> id.text, article_number |-> article_number.text,
                       content |-> content.text, context |-> context.text, url |-> url]]
    ELSE [ok |-> FALSE, article |-> NoArticle]

\* Faulty variant: the content is trimmed on its way into the blob.
blob_for_embedding_Trimmed(a) ==
    a.context \o <<" ", "\n", "A", "r", "t", "i", "c", "l", "e", " ">>
              \o a.article_number \o <<" ", ":", " ">> \o Strip(a.content)

\* blob_for_embedding: f"{context} \nArticle {article_number} : {content}"
blob_for_embedding(a) ==
    a.context \o <<" ", "\n", "A", "r", "t", "i", "c", "l", "e", " ">>
              \o a.article_number \o <<" ", ":", " ">> \o a.content

\* full_url: the base URL (abbreviated to "u", "/") followed by the id.
full_url(a) == <<"u", "/">> \o a.id

(***************************************************************************)
(* parser.py: XML extraction                                               *)
(***************************************************************************)

\* clean_text(text_list)
clean_text(text_list) ==
    IF text_list = <<>> THEN <<>>
    ELSE Join(Split(Join(text_list, <<" ">>)), <<" ">>)

\* The fixed root label used when no context is found ("Code de la Route").
DefaultContext == <<"C", "d", "R">>

\* The context path: every fragment stripped, the empty ones dropped, joined by " > ".
RECURSIVE StrippedNonEmpty(_)
StrippedNonEmpty(frags) ==
    IF frags = <<>> THEN <<>>
    ELSE IF Strip(Head(frags)) = <<>> THEN StrippedNonEmpty(Tail(frags))
         ELSE <<Strip(Head(frags))>> \o StrippedNonEmpty(Tail(frags))

context_str(contexte) ==
    LET parents == IF contexte.present THEN StrippedNonEmpty(contexte.frags) ELSE <<>>
    IN  IF parents = <<>> THEN DefaultContext ELSE Join(parents, <<" ", ">", " ">>)

\* An element holding text fragments (what itertext() yields), or absent.
Elem(frags) == [present |-> TRUE, frags |-> frags]
NoElem == [present |-> FALSE, frags |-> <<>>]

\* Faulty variant: CONTENU is read only when there is no BLOC_TEXTUEL element.
content_text_FallbackWhenAbsent(doc) ==
    IF doc.bloc.present THEN clean_text(doc.bloc.frags)
    ELSE IF doc.contenu.present THEN clean_text(doc.contenu.frags) ELSE <<>>

\* The body text: BLOC_TEXTUEL when it yields text, else the first CONTENU.
content_text(doc) ==
    LET a == IF doc.bloc.present THEN clean_text(doc.bloc.frags) ELSE <<>>
    IN  IF a # <<>> THEN a
        ELSE IF doc.contenu.present THEN clean_text(doc.contenu.frags) ELSE <<>>

\* Faulty variant: no catch-all clause, only the two named ones.
OnParseError_NoCatchAll(exc) ==
    [raised |-> exc \notin {"XMLSyntaxError", "ValidationError"}]

\* The except clauses of parse_xml_file, for an exception raised in its try:
\* XMLSyntaxError, ValueError (pydantic's ValidationError is one) and every
\* other Exception (an OSError for a file that cannot be read) each return None.
OnParseError(exc) ==
    IF exc = "XMLSyntaxError" THEN [raised |-> FALSE]
    ELSE IF exc = "ValidationError" THEN [raised |-> FALSE]
    ELSE [raised |-> FALSE]

\* etree.parse(str(filepath)): the exception it raises, or "none".
etree_parse(doc) ==
    IF ~doc.readable THEN "OSError"
    ELSE IF ~doc.wellformed THEN "XMLSyntaxError"
    ELSE "none"

\* The outcome of a call whose try raised exc after the given steps.
ParseFailed(exc, steps) ==
    [ok |-> FALSE, raised |-> OnParseError(exc).raised, article |-> NoArticle,
     steps |-> steps]

\* The outcome of a call that reached the construction of the record.
ParseMade(made, steps) ==
    IF made.ok
    THEN [ok |-> TRUE, raised |-> FALSE, article |-> made.article, steps |-> steps]
    ELSE ParseFailed("ValidationError", steps)

\* return None: the outcome of a call that turned the document away.
ParseNone(steps) == [ok |-> FALSE, raised |-> FALSE, article |-> NoArticle, steps |-> steps]

\* Faulty variant: the status is never looked at.
parse_xml_file_NoStatusCheck(doc) ==
    IF etree_parse(doc) # "none"
    THEN ParseFailed(etree_parse(doc), <<"parse">>)
    ELSE LET made == TrafficLawArticle(doc.id, doc.num, Some(content_text(doc)),
                                       Some(context_str(doc.contexte)), None)
         IN  ParseMade(made, <<"parse", "metadata", "content", "context", "validate">>)

\* Faulty variant: only the status "ABROGE" is turned away, after extraction.
parse_xml_file_RejectsAbrogeOnly(doc) ==
    IF etree_parse(doc) # "none"
    THEN ParseFailed(etree_parse(doc), <<"parse">>)
    ELSE LET made == TrafficLawArticle(doc.id, doc.num, Some(content_text(doc)),
                                       Some(context_str(doc.contexte)), None)
         IN  IF doc.etat.present /\ doc.etat.text = "ABROGE"
             THEN ParseNone(<<"parse", "metadata", "content", "context", "status">>)
             ELSE ParseMade(made, <<"parse", "metadata", "content", "context", "status",
                                    "validate">>)

\* parse_xml_file(filepath).  A document is
\*   [readable, wellformed, etat, id, num, bloc, contenu, contexte]:
\* etat is [present, text], the text of META_ARTICLE/ETAT as one atomic string
\* (the code compares it as a whole), id and num are optional texts, the
\* others optional elements.
\* The result is [ok, raised, article, steps]: ok = FALSE is the None result,
\* raised an exception that left the call, steps lists the extraction steps
\* the call performed, in order.
parse_xml_file(doc) ==
    IF etree_parse(doc) # "none"
    THEN ParseFailed(etree_parse(doc), <<"parse">>)
    ELSE IF ~(doc.etat.present /\ doc.etat.text = "VIGUEUR")
    THEN ParseNone(<<"parse", "status">>)
    ELSE LET made == TrafficLawArticle(doc.id, doc.num, Some(content_text(doc)),
                                       Some(context_str(doc.contexte)), None)
         IN  ParseMade(made, <<"parse", "status", "metadata", "content", "context",
                               "validate">>)

\* filename.endswith(suffix)
EndsWith(name, suffix) ==
    /\ Len(name) >= Len(suffix)
    /\ SubSeq(name, Len(name) - Len(suffix) + 1, Len(name)) = suffix

XmlSuffix == <<".", "x", "m", "l">>

\* A directory is [exists, files]: files lists what os.walk yields under the
\* root, at every depth, in walk order, each [name, depth, doc].
\* Faulty variant: every file of the walk is parsed, whatever its name.
parsed_files_AnyName(dir) == IF ~dir.exists THEN <<>> ELSE dir.files

\* The files process_directory hands to parse_xml_file, in order: none when
\* the root does not exist, else those whose name ends in ".xml".
parsed_files(dir) ==
    LET RECURSIVE Select(_)
        Select(fs) == IF fs = <<>> THEN <<>>
                      ELSE (IF EndsWith(Head(fs).name, XmlSuffix) THEN <<Head(fs)>> ELSE <<>>)
                           \o Select(Tail(fs))
    IN  IF ~dir.exists THEN <<>> ELSE Select(dir.files)

\* process_directory(source_dir): the records of the parsed files that gave
\* one, in order.
process_directory(dir) ==
    LET RECURSIVE Collect(_)
        Collect(fs) ==
            IF fs = <<>> THEN <<>>
            ELSE LET r == parse_xml_file(Head(fs).doc)
                 IN  (IF r.ok THEN <<r.article>> ELSE <<>>) \o Collect(Tail(fs))
    IN  Collect(parsed_files(dir))

\* article.model_dump(): the full field set, derived values included.
model_dump(a) ==
    [id |-> a.id, article_number |-> a.article_number, content |-> a.content,
     context |-> a.context, url |-> a.url,
     blob_for_embedding |-> blob_for_embedding(a), full_url |-> full_url(a)]

(***************************************************************************)
(* The raw dump: NumFiles XML files, one article each.  The last file      *)
(* carries the id of the first, so a dataset can list an id twice.         *)
(***************************************************************************)

Files == 1..NumFiles

Digits == <<"1", "2", "3", "4", "5", "6", "7", "8", "9">>

FileId(f) == <<"I", Digits[IF f = NumFiles THEN 1 ELSE f]>>
FileNum(f) == <<"R", Digits[f]>>
FileBody(f) == <<"b", "o", "d", "y", " ", Digits[f]>>

Etats == {"VIGUEUR", "ABROGE"}

VARIABLES
    etat,              \* pipeline: file -> the ETAT its XML carries now
    datasetExists,     \* pipeline: the dataset artifact exists on disk
    dataset,           \* pipeline: the JSON array of the artifact
    collectionExists,  \* pipeline: the vector collection exists
    collection,        \* pipeline: the entries of the collection, in insertion order
    ixPc,              \* indexing run: where it stands
    articles,          \* indexing run: the loaded records
    ixI,               \* indexing run: the loop variable i
    new_articles,      \* indexing run: the new records of the current batch
    attempts,          \* indexing run: failed attempts of the embedding call in progress
    total_new_docs,    \* indexing run: the counter it reports
    history,           \* history of the dataset as it is now: [completed, interrupted],
                       \* an indexing run over it has completed / was interrupted
    datasetJson,       \* pipeline: the text of the artifact parses as JSON
    before             \* history of the indexing run: the store as the run found it,
                       \* [known, exists, entries]

pipelineVars ==
    <<etat, datasetExists, dataset, collectionExists, collection, ixPc, articles,
      ixI, new_articles, attempts, total_new_docs, history, datasetJson, before>>

VARIABLES
    pPc,      \* extraction: "input" before the call, "parsed" after it
    pDoc,     \* extraction: the document of the file
    pResult   \* extraction: what parse_xml_file returned

parseVars == <<pPc, pDoc, pResult>>

VARIABLES
    sPc,         \* search: "called", "embedding", "querying", "returned", "raised"
    sQuery,      \* search: the query argument (an optional text)
    sK,          \* search: the k argument, [given, n]
    sResp,       \* search: what collection.query returned
    sResult,     \* search: the list search returned
    embedCalls,  \* search: calls made to the embedding service
    queryCalls   \* search: calls made to the vector collection

searchVars == <<sPc, sQuery, sK, sResp, sResult, embedCalls, queryCalls>>

VARIABLES
    apiKey,        \* start-up: GOOGLE_API_KEY is set
    dbPath,        \* start-up: CHROMA_DB_PATH exists
    dbCollection,  \* start-up: the database holds the collection
    stPc,          \* start-up: "down", "constructing", "ready", "stopped", "crashed"
    frontend,      \* start-up: "cli" (main.py), "app" (app.py), "direct", or "none"
    retriever,     \* start-up: a TrafficRetriever instance was produced
    stError,       \* start-up: the exception the construction raised, or "none"
    starts         \* start-up: start-ups begun so far

startVars == <<apiKey, dbPath, dbCollection, stPc, frontend, retriever, stError, starts>>

VARIABLES
    mPc,      \* record: "input", "constructed", "dumped"
    mArgs,    \* record: the keyword arguments of the construction
    mResult,  \* record: what TrafficLawArticle(...) gave, [ok, article]
    mDump     \* record: what model_dump() gave

modelVars == <<mPc, mArgs, mResult, mDump>>

VARIABLES
    fPc,         \* relevance filter: "input", "filtered"
    fResults,    \* relevance filter: the results search returned
    fThreshold,  \* relevance filter: the threshold, in tenths
    fRelevant    \* relevance filter: relevant_docs

filterVars == <<fPc, fResults, fThreshold, fRelevant>>

VARIABLES
    dPc,      \* directory walk: "input", "walked"
    dDir,     \* directory walk: the directory, [exists, files]
    dParsed,  \* directory walk: the files handed to parse_xml_file, in order
    dOut      \* directory walk: what process_directory returned

dirVars == <<dPc, dDir, dParsed, dOut>>

VARIABLES
    cPc,       \* context formatting: "input", "formatted"
    cResults,  \* context formatting: the results handed to _format_context
    cOut       \* context formatting: the text it returned, as its pieces

formatVars == <<cPc, cResults, cOut>>

VARIABLES
    hPc,    \* rehydration: "input", "rehydrated"
    hResp,  \* rehydration: a response that holds one hit
    hOut    \* rehydration: what the try of the loop gave for it, [ok, result]

hitVars == <<hPc, hResp, hOut>>

VARIABLES
    gPc,        \* generation: "called", "streaming", "done", "raised"
    gCallOk,    \* generation: generate_content_stream returns a stream
    gStream,    \* generation: what the stream will deliver, in order
    gReceived,  \* generation: how many deliveries were consumed
    gYielded    \* generation: the fragments yielded to the consumer, in order

streamVars == <<gPc, gCallOk, gStream, gReceived, gYielded>>

VARIABLES
    kPc,       \* classification: "called", "asking", "returned", "raised"
    kQuery,    \* classification: the query argument (an optional text)
    kReply,    \* classification: what the LLM call gave
    kIntent,   \* classification: the intent classify returned
    llmCalls   \* classification: calls made to the LLM

classifyVars == <<kPc, kQuery, kReply, kIntent, llmCalls>>

VARIABLES
    qPc,        \* query flow: "prompt", "searching", "generating", "answered", "left"
    qFrontend,  \* query flow: "app" (app.py) or "cli" (main.py), "none" when unused
    qQuery,     \* query flow: the text the user entered
    qIntent,    \* query flow: the intent the app's classifier returned, or ""
    qResults,   \* query flow: what retriever.search returned
    qRelevant,  \* query flow: the app's relevant_docs
    qHanded     \* query flow: the results handed to generate_stream

flowVars == <<qPc, qFrontend, qQuery, qIntent, qResults, qRelevant, qHanded>>

VARIABLES
    tPc,       \* round trip: "loaded", "stored", "retrieved"
    tArticle,  \* round trip: the article the indexing run loaded
    tStore,    \* round trip: the entries of the collection
    tOut       \* round trip: what the rehydration of the hit gave, [ok, result]

tripVars == <<tPc, tArticle, tStore, tOut>>

\* What the actions of one component leave alone: the variables of the others.
notPipeline == <<parseVars, searchVars, startVars, modelVars, filterVars, dirVars,
    formatVars, hitVars, streamVars, classifyVars, flowVars, tripVars>>
notParse == <<pipelineVars, searchVars, startVars, modelVars, filterVars, dirVars,
    formatVars, hitVars, streamVars, classifyVars, flowVars, tripVars>>
notSearch == <<pipelineVars, parseVars, startVars, modelVars, filterVars, dirVars,
    formatVars, hitVars, streamVars, classifyVars, flowVars, tripVars>>
notStart == <<pipelineVars, parseVars, searchVars, modelVars, filterVars, dirVars,
    formatVars, hitVars, streamVars, classifyVars, flowVars, tripVars>>
notModel == <<pipelineVars, parseVars, searchVars, startVars, filterVars, dirVars,
    formatVars, hitVars, streamVars, classifyVars, flowVars, tripVars>>
notFilter == <<pipelineVars, parseVars, searchVars, startVars, modelVars, dirVars,
    formatVars, hitVars, streamVars, classifyVars, flowVars, tripVars>>
notDir == <<pipelineVars, parseVars, searchVars, startVars, modelVars, filterVars,
    formatVars, hitVars, streamVars, classifyVars, flowVars, tripVars>>
notFormat == <<pipelineVars, parseVars, searchVars, startVars, modelVars, filterVars,
    dirVars, hitVars, streamVars, classifyVars, flowVars, tripVars>>
notHit == <<pipelineVars, parseVars, searchVars, startVars, modelVars, filterVars,
    dirVars, formatVars, streamVars, classifyVars, flowVars, tripVars>>
notStream == <<pipelineVars, parseVars, searchVars, startVars, modelVars, filterVars,
    dirVars, formatVars, hitVars, classifyVars, flowVars, tripVars>>
notClassify == <<pipelineVars, parseVars, searchVars, startVars, modelVars, filterVars,
    dirVars, formatVars, hitVars, streamVars, flowVars, tripVars>>
notFlow == <<pipelineVars, parseVars, searchVars, startVars, modelVars, filterVars,
    dirVars, formatVars, hitVars, streamVars, classifyVars, tripVars>>
notTrip == <<pipelineVars, parseVars, searchVars, startVars, modelVars, filterVars,
    dirVars, formatVars, hitVars, streamVars, classifyVars, flowVars>>

\* The XML document file f holds now.
XmlFile(f) ==
    [readable |-> TRUE, wellformed |-> TRUE,
     etat |-> [present |-> TRUE, text |-> etat[f]],
     id |-> Some(FileId(f)), num |-> Some(FileNum(f)),
     bloc |-> [present |-> TRUE, frags |-> <<FileBody(f)>>],
     contenu |-> NoElem, contexte |-> NoElem]

\* RAW_DATA_DIR as it is now: the files of the dump, one level down.
RawDataDir ==
    [exists |-> TRUE,
     files |-> [f \in Files |-> [name |-> <<Digits[f]>> \o XmlSuffix, depth |-> 1,
                                 doc |-> XmlFile(f)]]]

IdsOf(records) == {records[n].id : n \in DOMAIN records}
IdList(records) == [n \in DOMAIN records |-> records[n].id]
HasDuplicates(ids) == \E m, n \in DOMAIN ids : m # n /\ ids[m] = ids[n]

(***************************************************************************)
(* parser.py main: the ingestion run                                       *)
(***************************************************************************)

NoHistory == [completed |-> FALSE, interrupted |-> FALSE]

\* No indexing run is in progress or has ended since the last ingestion run.
NoBefore == [known |-> FALSE, exists |-> FALSE, entries |-> <<>>]

Stopped == {"idle", "done", "load_failed", "embed_failed", "store_failed"}
Running == {"loading", "check", "embed", "add", "sleep"}

\* The ingestion run, between indexing runs: the artifact is rewritten when at
\* least one article was collected, and left as it is otherwise.  The process
\* of the last indexing run has exited by then, and its locals with it.
ParserMain ==
    /\ ixPc \in Stopped
    /\ LET found == process_directory(RawDataDir)
           data == [n \in DOMAIN found |-> model_dump(found[n])]
       IN  IF found # <<>>
           THEN /\ datasetExists' = TRUE
                /\ datasetJson' = TRUE
                /\ dataset' = data
                /\ history' = IF datasetExists /\ datasetJson /\ data = dataset
                              THEN history ELSE NoHistory
           ELSE UNCHANGED <<datasetExists, datasetJson, dataset, history>>
    /\ before' = NoBefore
    /\ ixPc' = "idle"
    /\ articles' = <<>>
    /\ ixI' = 0
    /\ new_articles' = <<>>
    /\ attempts' = 0
    /\ total_new_docs' = 0
    /\ UNCHANGED <<etat, collectionExists, collection>>
    /\ UNCHANGED notPipeline

\* The raw dump is refreshed: one file's status changes.
StatusChange(f) ==
    /\ etat' = [etat EXCEPT ![f] = IF @ = "VIGUEUR" THEN "ABROGE" ELSE "VIGUEUR"]
    /\ UNCHANGED <<datasetExists, datasetJson, dataset, collectionExists, collection,
                   ixPc, articles, ixI, new_articles, attempts, total_new_docs, history,
                   before>>
    /\ UNCHANGED notPipeline

(***************************************************************************)
(* The vector collection (ChromaDB), at the interface indexing.py uses     *)
(***************************************************************************)

\* The embedding of a text under a task hint: opaque, a function of both.
Embedding(task, text) == [task |-> task, of |-> text]

\* collection.get(ids=..., include=[])['ids']: the ids among those asked that
\* the collection holds.
CollectionGet(coll, ids) == {ids[n] : n \in DOMAIN ids} \cap IdsOf(coll)

\* collection.add(ids, embeddings, metadatas, documents): [raised, collection].
\* The store rejects a call whose id list repeats an id (DuplicateIDError) and
\* writes nothing; otherwise each id it does not hold yet gets one entry.
RECURSIVE AppendEntries(_, _)
AppendEntries(coll, entries) ==
    IF entries = <<>> THEN coll
    ELSE AppendEntries(
            IF Head(entries).id \in IdsOf(coll) THEN coll ELSE Append(coll, Head(entries)),
            Tail(entries))

\* Faulty variant: a store that appends whatever it is given.
CollectionAddUnchecked(coll, ids, embeddings, metadatas, documents) ==
    [raised |-> FALSE,
     collection |-> coll \o [n \in DOMAIN ids |->
                                [id |-> ids[n], embedding |-> embeddings[n],
                                 metadata |-> metadatas[n], document |-> documents[n]]]]

CollectionAdd(coll, ids, embeddings, metadatas, documents) ==
    IF HasDuplicates(ids)
    THEN [raised |-> TRUE, collection |-> coll]
    ELSE [raised |-> FALSE,
          collection |-> AppendEntries(coll,
              [n \in DOMAIN ids |-> [id |-> ids[n], embedding |-> embeddings[n],
                                     metadata |-> metadatas[n], document |-> documents[n]]])]

(***************************************************************************)
(* indexing.py main: the indexing run                                      *)
(***************************************************************************)

\* Faulty variant: a lenient loader that leaves out the elements that fail
\* validation and returns the others.
load_validated_data_SkipsInvalid ==
    LET made == [n \in DOMAIN dataset |->
                    TrafficLawArticle(Some(dataset[n].id), Some(dataset[n].article_number),
                                      Some(dataset[n].content), Some(dataset[n].context),
                                      dataset[n].url)]
        Valid[n \in 0..Len(made)] ==
            IF n = 0 THEN <<>>
            ELSE IF made[n].ok THEN Append(Valid[n - 1], made[n].article) ELSE Valid[n - 1]
    IN  IF datasetExists /\ datasetJson
        THEN [ok |-> TRUE, articles |-> Valid[Len(made)]]
        ELSE [ok |-> FALSE, articles |-> <<>>]

\* load_validated_data: [ok, articles]; a missing artifact or one element that
\* fails validation fails the whole load.
load_validated_data ==
    LET made == [n \in DOMAIN dataset |->
                    TrafficLawArticle(Some(dataset[n].id), Some(dataset[n].article_number),
                                      Some(dataset[n].content), Some(dataset[n].context),
                                      dataset[n].url)]
    IN  IF datasetExists /\ datasetJson /\ \A n \in DOMAIN made : made[n].ok
        THEN [ok |-> TRUE, articles |-> [n \in DOMAIN made |-> made[n].article]]
        ELSE [ok |-> FALSE, articles |-> <<>>]

\* articles[i : i + BATCH_SIZE]
batch_articles == SubSeq(articles, ixI + 1, IF ixI + BATCH_SIZE < Len(articles)
                                            THEN ixI + BATCH_SIZE ELSE Len(articles))

\* [a for a in batch_articles if a.id not in existing_ids_set]
RECURSIVE NotIn(_, _)
NotIn(records, ids) ==
    IF records = <<>> THEN <<>>
    ELSE (IF Head(records).id \in ids THEN <<>> ELSE <<Head(records)>>)
         \o NotIn(Tail(records), ids)

\* Faulty variant: no idempotency check, the whole batch counts as new.
NewArticlesUnfiltered(batch, coll) == batch

NewArticles(batch, coll) == NotIn(batch, CollectionGet(coll, IdList(batch)))

\* Faulty variant: the id is written under the key "id", which search does
\* not read.
new_metadata_IdKey(a) ==
    [id |-> Some(a.id), num |-> Some(a.article_number),
     category |-> Some(a.context), url |-> Some(full_url(a))]

\* The metadata the run writes for a record.
new_metadata(a) ==
    [article_id |-> Some(a.id), num |-> Some(a.article_number),
     category |-> Some(a.context), url |-> Some(full_url(a))]

\* Faulty variant: the retry stops one attempt late.
RetryStopsLate(n) == n > MAX_RETRIES

\* stop_after_attempt(MAX_RETRIES): the retry stops once this many attempts failed.
RetryStops(n) == n >= MAX_RETRIES

\* The for loop moves to the next batch, or ends.
NextBatch ==
    /\ ixI' = ixI + BATCH_SIZE
    /\ new_articles' = <<>>
    /\ attempts' = 0
    /\ IF ixI + BATCH_SIZE < Len(articles)
       THEN /\ ixPc' = "check"
            /\ UNCHANGED history
       ELSE /\ ixPc' = "done"
            /\ history' = [history EXCEPT !.completed = TRUE]

\* main starts: get_or_create_collection.
RunStart ==
    /\ ixPc \in Stopped
    /\ ixPc' = "loading"
    /\ collectionExists' = TRUE
    /\ articles' = <<>>
    /\ ixI' = 0
    /\ new_articles' = <<>>
    /\ attempts' = 0
    /\ total_new_docs' = 0
    /\ before' = [known |-> TRUE, exists |-> collectionExists, entries |-> collection]
    /\ UNCHANGED <<etat, datasetExists, datasetJson, dataset, collection, history>>
    /\ UNCHANGED notPipeline

\* Load and validate; a failure is logged and main returns.
Load ==
    /\ ixPc = "loading"
    /\ LET r == load_validated_data
       IN  IF ~r.ok
           THEN /\ ixPc' = "load_failed"
                /\ UNCHANGED <<articles, history>>
           ELSE /\ articles' = r.articles
                /\ IF r.articles = <<>>
                   THEN ixPc' = "done" /\ history' = [history EXCEPT !.completed = TRUE]
                   ELSE ixPc' = "check" /\ UNCHANGED history
    /\ UNCHANGED <<etat, datasetExists, datasetJson, dataset, before, collectionExists,
                   collection, ixI, new_articles, attempts, total_new_docs>>
    /\ UNCHANGED notPipeline

\* Faulty variant: a batch without new records is followed by the sleep too.
Check_SleepsAfterSkip ==
    /\ ixPc = "check"
    /\ \/ /\ HasDuplicates(IdList(batch_articles))
          /\ ixPc' = "store_failed"
          /\ UNCHANGED <<ixI, new_articles, attempts, history>>
       \/ LET new == NewArticles(batch_articles, collection)
          IN  /\ ixPc' = IF new = <<>> THEN "sleep" ELSE "embed"
              /\ new_articles' = new
              /\ attempts' = 0
              /\ UNCHANGED <<ixI, history>>
    /\ UNCHANGED <<etat, datasetExists, datasetJson, dataset, before, collectionExists,
                   collection, articles, total_new_docs>>
    /\ UNCHANGED notPipeline

\* The idempotency check of a batch.  The store may validate the ids of a get
\* as it does those of an add (the release decides): a batch that repeats an
\* id can fail here.
Check ==
    /\ ixPc = "check"
    /\ \/ /\ HasDuplicates(IdList(batch_articles))
          /\ ixPc' = "store_failed"
          /\ UNCHANGED <<ixI, new_articles, attempts, history>>
       \/ LET new == NewArticles(batch_articles, collection)
          IN  IF new = <<>>
              THEN NextBatch
              ELSE /\ ixPc' = "embed"
                   /\ new_articles' = new
                   /\ attempts' = 0
                   /\ UNCHANGED <<ixI, history>>
    /\ UNCHANGED <<etat, datasetExists, datasetJson, dataset, before, collectionExists,
                   collection, articles, total_new_docs>>
    /\ UNCHANGED notPipeline

\* One attempt of compute_embeddings_with_backoff succeeds: the call returns
\* and its retry state is gone.
EmbedOk ==
    /\ ixPc = "embed"
    /\ attempts' = 0
    /\ ixPc' = "add"
    /\ UNCHANGED <<etat, datasetExists, datasetJson, dataset, before, collectionExists,
                   collection, articles, ixI, new_articles, total_new_docs, history>>
    /\ UNCHANGED notPipeline

\* Faulty variant: the records are embedded and stored one by one, so the
\* first of the batch is in the store when the retries of a later one run out.
EmbedFail_StoresFirst ==
    /\ ixPc = "embed"
    /\ attempts' = attempts + 1
    /\ IF RetryStops(attempts + 1)
       THEN /\ ixPc' = "embed_failed"
            /\ LET a == Head(new_articles)
               IN  collection' =
                       CollectionAdd(collection, <<a.id>>,
                           <<Embedding("RETRIEVAL_DOCUMENT", blob_for_embedding(a))>>,
                           <<new_metadata(a)>>, <<blob_for_embedding(a)>>).collection
       ELSE /\ ixPc' = "embed"
            /\ UNCHANGED collection
    /\ UNCHANGED <<etat, datasetExists, datasetJson, dataset, before, collectionExists,
                   articles, ixI, new_articles, total_new_docs, history>>
    /\ UNCHANGED notPipeline

\* One attempt fails: the retry policy waits and tries again, or gives up and
\* the failure leaves main.
EmbedFail ==
    /\ ixPc = "embed"
    /\ attempts' = attempts + 1
    /\ ixPc' = IF RetryStops(attempts + 1) THEN "embed_failed" ELSE "embed"
    /\ UNCHANGED <<etat, datasetExists, datasetJson, dataset, before, collectionExists,
                   collection, articles, ixI, new_articles, total_new_docs, history>>
    /\ UNCHANGED notPipeline

\* Faulty variant: the whole batch is upserted, so an entry the store holds
\* is overwritten with the record of the dataset.
Add_Upsert ==
    /\ ixPc = "add"
    /\ LET batch == batch_articles
           entry(a) == [id |-> a.id,
                        embedding |-> Embedding("RETRIEVAL_DOCUMENT", blob_for_embedding(a)),
                        metadata |-> new_metadata(a), document |-> blob_for_embedding(a)]
           replaced == [n \in DOMAIN collection |->
                           IF \E m \in DOMAIN batch : batch[m].id = collection[n].id
                           THEN entry(batch[CHOOSE m \in DOMAIN batch :
                                                batch[m].id = collection[n].id])
                           ELSE collection[n]]
       IN  /\ collection' = AppendEntries(replaced, [n \in DOMAIN batch |-> entry(batch[n])])
           /\ total_new_docs' = total_new_docs + Len(new_articles)
           /\ ixPc' = "sleep"
    /\ UNCHANGED <<etat, datasetExists, datasetJson, dataset, before, collectionExists,
                   articles, ixI, new_articles, attempts, history>>
    /\ UNCHANGED notPipeline

\* collection.add of the batch's new records.
Add ==
    /\ ixPc = "add"
    /\ LET new_docs == [n \in DOMAIN new_articles |-> blob_for_embedding(new_articles[n])]
           r == CollectionAdd(collection, IdList(new_articles),
                    [n \in DOMAIN new_docs |-> Embedding("RETRIEVAL_DOCUMENT", new_docs[n])],
                    [n \in DOMAIN new_articles |-> new_metadata(new_articles[n])],
                    new_docs)
       IN  IF r.raised
           THEN /\ ixPc' = "store_failed"
                /\ UNCHANGED <<collection, total_new_docs>>
           ELSE /\ collection' = r.collection
                /\ total_new_docs' = total_new_docs + Len(new_articles)
                /\ ixPc' = "sleep"
    /\ UNCHANGED <<etat, datasetExists, datasetJson, dataset, before, collectionExists,
                   articles, ixI, new_articles, attempts, history>>
    /\ UNCHANGED notPipeline

\* time.sleep(SLEEP_BETWEEN_BATCHES) ends.
Sleep ==
    /\ ixPc = "sleep"
    /\ NextBatch
    /\ UNCHANGED <<etat, datasetExists, datasetJson, dataset, before, collectionExists,
                   collection, articles, total_new_docs>>
    /\ UNCHANGED notPipeline

\* The process is killed at any step of a run.
Interrupt ==
    /\ ixPc \in Running
    /\ ixPc' = "idle"
    /\ articles' = <<>>
    /\ ixI' = 0
    /\ new_articles' = <<>>
    /\ attempts' = 0
    /\ total_new_docs' = 0
    /\ history' = [history EXCEPT !.interrupted = TRUE]
    /\ before' = NoBefore
    /\ UNCHANGED <<etat, datasetExists, datasetJson, dataset, collectionExists, collection>>
    /\ UNCHANGED notPipeline

(***************************************************************************)
(* parse_xml_file as a function of the document: the documents drawn       *)
(***************************************************************************)

\* Sequences of length at most n over S.
SeqsUpTo(S, n) == UNION {[1..m -> S] : m \in 0..n}

BodyFragments == {<<" ">>, <<"a", "b">>, <<"\n", "a", "b", "c">>}
RawFragments == {<<"\t">>, <<"a", "b", "c", "d", "e">>}
ContextFragments == {<<" ">>, <<" ", "t", " ">>}

ElemsOver(F) == {NoElem} \cup {Elem(fl) : fl \in SeqsUpTo(F, MaxFrags)}

EtatTexts == {"VIGUEUR", "ABROGE", "MODIFIE", "vigueur", ""}

NoEtat == [present |-> FALSE, text |-> ""]

\* The file cannot be read, or is not well-formed XML: nothing else is there.
BrokenDoc(readable) ==
    [readable |-> readable, wellformed |-> FALSE, etat |-> NoEtat, id |-> None,
     num |-> None, bloc |-> NoElem, contenu |-> NoElem, contexte |-> NoElem]

Docs ==
    {BrokenDoc(TRUE), BrokenDoc(FALSE)} \cup
    [readable : {TRUE}, wellformed : {TRUE},
     etat : {NoEtat} \cup {[present |-> TRUE, text |-> t] : t \in EtatTexts},
     id : {None, Some(<<"I", "1">>)},
     num : {None, Some(<<"R", "1">>)},
     bloc : ElemsOver(BodyFragments),
     contenu : ElemsOver(RawFragments),
     contexte : ElemsOver(ContextFragments)]

NoResult == [ok |-> FALSE, raised |-> FALSE, article |-> NoArticle, steps |-> <<>>]

ParseInit ==
    /\ pPc = "input"
    /\ pDoc \in Docs
    /\ pResult = NoResult

ParseIdle ==
    /\ pPc = "unused"
    /\ pDoc = BrokenDoc(FALSE)
    /\ pResult = NoResult

\* The call parse_xml_file(filepath) on the drawn document.
ParseCall ==
    /\ pPc = "input"
    /\ pPc' = "parsed"
    /\ pResult' = parse_xml_file(pDoc)
    /\ UNCHANGED pDoc
    /\ UNCHANGED notParse

(***************************************************************************)
(* retrieval.py: TrafficRetriever.search                                   *)
(***************************************************************************)

Text_unknown == <<"u", "n", "k", "n", "o", "w", "n">>
Text_NA == <<"N", "/", "A">>

\* Metadata of a hit: a dict (present) with some of the keys, or None.
FullMeta ==
    [present |-> TRUE, article_id |-> Some(<<"I", "1">>), num |-> Some(<<"R", "1">>),
     category |-> Some(<<"C">>), url |-> Some(<<"u", "/", "I", "1">>)]
EmptyMeta ==
    [present |-> TRUE, article_id |-> None, num |-> None, category |-> None, url |-> None]
NoMeta ==
    [present |-> FALSE, article_id |-> None, num |-> None, category |-> None, url |-> None]

ValidDocument == <<"C", " ", "\n", "A", "r", "t", "i", "c", "l", "e", " ", "R", "1">>
ShortDocument == <<" ", "a", "b", "c", " ">>

\* The hits a query may return: metadata and document text of one entry.
Hits ==
    { [meta |-> FullMeta, document |-> Some(ValidDocument)],
      [meta |-> EmptyMeta, document |-> Some(ValidDocument)],
      [meta |-> NoMeta, document |-> Some(ValidDocument)],
      [meta |-> FullMeta, document |-> Some(ShortDocument)],
      [meta |-> FullMeta, document |-> None] }

\* The distance of the hit at position i, in tenths: the store lists the
\* nearest first.
Distance(i) == 9 + i

NoResponse == [hits |-> <<>>, distances |-> FALSE]

\* The responses to a query for n results: at most n hits, with or without the
\* distances.
Responses(n) ==
    [hits : SeqsUpTo(Hits, IF n < MaxHits THEN n ELSE MaxHits), distances : BOOLEAN]

Queries == {None} \cup {Some(q) : q \in SeqsUpTo({" ", "a"}, MaxQueryLen)}

NoK == [given |-> FALSE, n |-> 0]
Ks == {NoK} \cup {[given |-> TRUE, n |-> n] : n \in 0..MaxK}

\* k = k or settings.DEFAULT_TOP_K
effective_k(k) == IF k.given /\ k.n # 0 THEN k.n ELSE DEFAULT_TOP_K

\* Faulty variant: the length is taken without trimming.
query_too_short_NoStrip(query) ==
    \/ ~query.present
    \/ query.text = <<>>
    \/ Len(query.text) < 3

\* not query or len(query.strip()) < 3
query_too_short(query) ==
    \/ ~query.present
    \/ query.text = <<>>
    \/ Len(Strip(query.text)) < 3

\* Faulty variant: no default, a key that is not there gives None.
MetaGet_NoDefault(value, default) == value

\* meta.get(key, default)
MetaGet(value, default) == IF value.present THEN value ELSE Some(default)

\* The body of the try of the rehydration loop for hit i: [ok, result];
\* ok = FALSE is an exception raised inside it.
RehydrateHit(resp, i) ==
    LET meta == resp.hits[i].meta
        content == resp.hits[i].document
        distance == IF resp.distances THEN Distance(i) ELSE 0
        made == TrafficLawArticle(MetaGet(meta.article_id, Text_unknown),
                                  MetaGet(meta.num, Text_NA),
                                  content,
                                  MetaGet(meta.category, DefaultContext),
                                  meta.url)
    IN  IF meta.present /\ made.ok
        THEN [ok |-> TRUE, result |-> [article |-> made.article, score |-> distance]]
        ELSE [ok |-> FALSE, result |-> [article |-> NoArticle, score |-> 0]]

\* What search does when a guarded call fails: [raised, results].
\* except Exception: return []   (the embedding call)
OnEmbedError == [raised |-> FALSE, results |-> <<>>]

\* except Exception as e: ...; return []   (the vector query)
OnQueryError == [raised |-> FALSE, results |-> <<>>]

\* Faulty variant: no handler around a hit, its exception leaves search.
OnHitErrorPropagate(clean_results) ==
    [raised |-> TRUE, stop |-> TRUE, results |-> <<>>]

\* Faulty variant: break instead of continue, the hits after a bad one are lost.
OnHitErrorBreak(clean_results) ==
    [raised |-> FALSE, stop |-> TRUE, results |-> clean_results]

\* except Exception as e: ...; continue   (one hit of the rehydration loop):
\* the loop goes on with the results collected so far.
OnHitError(clean_results) == [raised |-> FALSE, stop |-> FALSE, results |-> clean_results]

\* The rehydration loop from hit i on: [raised, results].
RECURSIVE RehydrateFrom(_, _, _)
RehydrateFrom(resp, i, clean_results) ==
    IF i > Len(resp.hits) THEN [raised |-> FALSE, results |-> clean_results]
    ELSE LET r == RehydrateHit(resp, i)
         IN  IF r.ok
             THEN RehydrateFrom(resp, i + 1, Append(clean_results, r.result))
             ELSE LET h == OnHitError(clean_results)
                  IN  IF h.raised \/ h.stop
                      THEN [raised |-> h.raised, results |-> h.results]
                      ELSE RehydrateFrom(resp, i + 1, h.results)

SearchInit ==
    /\ sPc = "called"
    /\ sQuery \in Queries
    /\ sK \in Ks
    /\ sResp = NoResponse
    /\ sResult = <<>>
    /\ embedCalls = 0
    /\ queryCalls = 0

SearchIdle ==
    /\ sPc = "unused"
    /\ sQuery = None
    /\ sK = NoK
    /\ sResp = NoResponse
    /\ sResult = <<>>
    /\ embedCalls = 0
    /\ queryCalls = 0

\* search is entered: the query guard.
Validate ==
    /\ sPc = "called"
    /\ sPc' = IF query_too_short(sQuery) THEN "returned" ELSE "embedding"
    /\ UNCHANGED <<sQuery, sK, sResp, sResult, embedCalls, queryCalls>>
    /\ UNCHANGED notSearch

\* _embed_query returns the query vector.
EmbedQueryOk ==
    /\ sPc = "embedding"
    /\ embedCalls' = embedCalls + 1
    /\ sPc' = "querying"
    /\ UNCHANGED <<sQuery, sK, sResp, sResult, queryCalls>>
    /\ UNCHANGED notSearch

\* Faulty variant: the embedding call of a search is retried, as that of the
\* indexing run is, before search gives up.
EmbedQueryFail_Retries ==
    /\ sPc = "embedding"
    /\ embedCalls' = embedCalls + 1
    /\ IF embedCalls + 1 < 3
       THEN UNCHANGED <<sPc, sResult>>
       ELSE /\ sPc' = "returned"
            /\ sResult' = OnEmbedError.results
    /\ UNCHANGED <<sQuery, sK, sResp, queryCalls>>
    /\ UNCHANGED notSearch

\* _embed_query raises.
EmbedQueryFail ==
    /\ sPc = "embedding"
    /\ embedCalls' = embedCalls + 1
    /\ sPc' = IF OnEmbedError.raised THEN "raised" ELSE "returned"
    /\ sResult' = OnEmbedError.results
    /\ UNCHANGED <<sQuery, sK, sResp, queryCalls>>
    /\ UNCHANGED notSearch

\* collection.query answers, and the hits are rehydrated.
QueryOk ==
    /\ sPc = "querying"
    /\ queryCalls' = queryCalls + 1
    /\ \E resp \in Responses(effective_k(sK)) :
          LET r == RehydrateFrom(resp, 1, <<>>)
          IN  /\ sResp' = resp
              /\ sPc' = IF r.raised THEN "raised" ELSE "returned"
              /\ sResult' = r.results
    /\ UNCHANGED <<sQuery, sK, embedCalls>>
    /\ UNCHANGED notSearch

\* collection.query raises.
QueryFail ==
    /\ sPc = "querying"
    /\ queryCalls' = queryCalls + 1
    /\ sPc' = IF OnQueryError.raised THEN "raised" ELSE "returned"
    /\ sResult' = OnQueryError.results
    /\ UNCHANGED <<sQuery, sK, sResp, embedCalls>>
    /\ UNCHANGED notSearch

(***************************************************************************)
(* Start-up: TrafficRetriever.__init__ and the two front-ends              *)
(***************************************************************************)

\* Faulty variant: a constructor that creates the collection it does not find.
TrafficRetriever_init_GetOrCreate(key, path, coll, opens) ==
    IF ~key THEN [ok |-> FALSE, error |-> "ValueError", dbPath |-> path]
    ELSE IF ~opens THEN [ok |-> FALSE, error |-> "RuntimeError", dbPath |-> path]
    ELSE [ok |-> TRUE, error |-> "none", dbPath |-> TRUE]

\* TrafficRetriever.__init__: [ok, error, dbPath].  The key is checked first;
\* PersistentClient creates the directory it opens (opens = FALSE: it fails);
\* get_collection raises when the collection is not there; every failure of
\* the two is re-raised as RuntimeError("Database connection failed. Did you
\* run the ingestion script?").
TrafficRetriever_init(key, path, coll, opens) ==
    IF ~key THEN [ok |-> FALSE, error |-> "ValueError", dbPath |-> path]
    ELSE IF ~opens THEN [ok |-> FALSE, error |-> "RuntimeError", dbPath |-> path]
    ELSE IF ~coll THEN [ok |-> FALSE, error |-> "RuntimeError", dbPath |-> TRUE]
    ELSE [ok |-> TRUE, error |-> "none", dbPath |-> TRUE]

\* TrafficGenerator.__init__: [ok, error].
TrafficGenerator_init(key) ==
    IF ~key THEN [ok |-> FALSE, error |-> "ValueError"]
    ELSE [ok |-> TRUE, error |-> "none"]

\* IntentClassifier.__init__: [ok, error].  Without a model_name it reads
\* settings.CLASSIFIER_MODEL, which Settings does not define.
IntentClassifier_init(key, model_name_given) ==
    IF ~key THEN [ok |-> FALSE, error |-> "ValueError"]
    ELSE IF ~model_name_given THEN [ok |-> FALSE, error |-> "AttributeError"]
    ELSE [ok |-> TRUE, error |-> "none"]

StartInit ==
    /\ apiKey \in BOOLEAN
    /\ dbPath \in BOOLEAN
    /\ dbCollection \in {c \in BOOLEAN : c => dbPath}
    /\ stPc = "down"
    /\ frontend = "none"
    /\ retriever = FALSE
    /\ stError = "none"
    /\ starts = 0

StartIdle ==
    /\ apiKey = FALSE
    /\ dbPath = FALSE
    /\ dbCollection = FALSE
    /\ stPc = "unused"
    /\ frontend = "none"
    /\ retriever = FALSE
    /\ stError = "none"
    /\ starts = 0

\* A front-end starts: the path check of setup_system / load_system_components.
\* An absent path ends the start-up with the advice to run the indexing.
FrontendStart(fe) ==
    /\ stPc = "down"
    /\ starts < MaxStarts
    /\ starts' = starts + 1
    /\ frontend' = fe
    /\ stPc' = IF dbPath THEN "constructing" ELSE "stopped"
    /\ UNCHANGED <<apiKey, dbPath, dbCollection, retriever, stError>>
    /\ UNCHANGED notStart

\* setup_system builds the retriever and the generator; any exception is
\* printed and None is returned, so main does not enter the chat loop.
SetupSystem ==
    /\ stPc = "constructing"
    /\ frontend = "cli"
    /\ \E opens \in BOOLEAN :
          LET r == TrafficRetriever_init(apiKey, dbPath, dbCollection, opens)
              g == TrafficGenerator_init(apiKey)
          IN  /\ dbPath' = r.dbPath
              /\ IF r.ok /\ g.ok
                 THEN /\ stPc' = "ready"
                      /\ retriever' = TRUE
                      /\ stError' = "none"
                 ELSE /\ stPc' = "stopped"
                      /\ retriever' = FALSE
                      /\ stError' = IF r.ok THEN g.error ELSE r.error
    /\ UNCHANGED <<apiKey, dbCollection, frontend, starts>>
    /\ UNCHANGED notStart

\* load_system_components builds the classifier, the retriever and the
\* generator; an exception leaves it and ends the script.
LoadSystemComponents ==
    /\ stPc = "constructing"
    /\ frontend = "app"
    /\ \E opens \in BOOLEAN :
          LET c == IntentClassifier_init(apiKey, FALSE)
              r == TrafficRetriever_init(apiKey, dbPath, dbCollection, opens)
              g == TrafficGenerator_init(apiKey)
          IN  IF ~c.ok
              THEN /\ stPc' = "crashed"
                   /\ stError' = c.error
                   /\ UNCHANGED <<dbPath, retriever>>
              ELSE /\ dbPath' = r.dbPath
                   /\ IF r.ok /\ g.ok
                      THEN /\ stPc' = "ready"
                           /\ retriever' = TRUE
                           /\ stError' = "none"
                      ELSE /\ stPc' = "crashed"
                           /\ retriever' = FALSE
                           /\ stError' = IF r.ok THEN g.error ELSE r.error
    /\ UNCHANGED <<apiKey, dbCollection, frontend, starts>>
    /\ UNCHANGED notStart

\* TrafficRetriever() called on its own (the standalone test of retrieval.py):
\* no path check comes before it.
ConstructDirect ==
    /\ stPc = "down"
    /\ starts < MaxStarts
    /\ starts' = starts + 1
    /\ frontend' = "direct"
    /\ \E opens \in BOOLEAN :
          LET r == TrafficRetriever_init(apiKey, dbPath, dbCollection, opens)
          IN  /\ dbPath' = r.dbPath
              /\ stPc' = IF r.ok THEN "ready" ELSE "crashed"
              /\ retriever' = r.ok
              /\ stError' = r.error
    /\ UNCHANGED <<apiKey, dbCollection>>
    /\ UNCHANGED notStart

\* The process ends; its instances are gone.
Shutdown ==
    /\ stPc \in {"ready", "stopped", "crashed"}
    /\ stPc' = "down"
    /\ frontend' = "none"
    /\ retriever' = FALSE
    /\ stError' = "none"
    /\ UNCHANGED <<apiKey, dbPath, dbCollection, starts>>
    /\ UNCHANGED notStart

\* The operator runs the indexing script: get_or_create_collection.
IndexingCreates ==
    /\ stPc = "down"
    /\ ~dbCollection
    /\ dbPath' = TRUE
    /\ dbCollection' = TRUE
    /\ UNCHANGED <<apiKey, stPc, frontend, retriever, stError, starts>>
    /\ UNCHANGED notStart

(***************************************************************************)
(* models.py: the construction of an Article Record, on drawn arguments    *)
(***************************************************************************)

ContentTexts == SeqsUpTo({" ", "\n", "a"}, MaxContentLen)

\* The keyword arguments: each of the five given as a text, or left out.
ArgIds == {<<"I", "1">>, <<"I", "2">>}
ArgUrls == {None, Some(<<"u">>)}

ModelArgs ==
    [id : {None} \cup {Some(t) : t \in ArgIds},
     article_number : {None, Some(<<"R", "1">>)},
     content : {None} \cup {Some(t) : t \in ContentTexts},
     context : {None, Some(<<"C">>)},
     url : ArgUrls]

NoDump == model_dump(NoArticle)

ModelInit ==
    /\ mPc = "input"
    /\ mArgs \in ModelArgs
    /\ mResult = [ok |-> FALSE, article |-> NoArticle]
    /\ mDump = NoDump

ModelIdle ==
    /\ mPc = "unused"
    /\ mArgs = [id |-> None, article_number |-> None, content |-> None,
                context |-> None, url |-> None]
    /\ mResult = [ok |-> FALSE, article |-> NoArticle]
    /\ mDump = NoDump

\* TrafficLawArticle(**kwargs)
Construct ==
    /\ mPc = "input"
    /\ mResult' = TrafficLawArticle(mArgs.id, mArgs.article_number, mArgs.content,
                                    mArgs.context, mArgs.url)
    /\ mPc' = "constructed"
    /\ UNCHANGED <<mArgs, mDump>>
    /\ UNCHANGED notModel

\* article.model_dump() on the record constructed: the computed fields.
ModelDump ==
    /\ mPc = "constructed"
    /\ mResult.ok
    /\ mDump' = model_dump(mResult.article)
    /\ mPc' = "dumped"
    /\ UNCHANGED <<mArgs, mResult>>
    /\ UNCHANGED notModel

(***************************************************************************)
(* app.py: the relevance filter, on drawn results                          *)
(***************************************************************************)

\* Faulty variant: a score equal to the threshold is kept.
relevant_docs_Inclusive(results, threshold) ==
    LET RECURSIVE Keep(_)
        Keep(rs) == IF rs = <<>> THEN <<>>
                    ELSE (IF Head(rs).score <= threshold THEN <<Head(rs)>> ELSE <<>>)
                         \o Keep(Tail(rs))
    IN  Keep(results)

\* [r for r in results if r.score < threshold]
relevant_docs(results, threshold) ==
    LET RECURSIVE Keep(_)
        Keep(rs) == IF rs = <<>> THEN <<>>
                    ELSE (IF Head(rs).score < threshold THEN <<Head(rs)>> ELSE <<>>)
                         \o Keep(Tail(rs))
    IN  Keep(results)

\* Scores and thresholds, in tenths, around the configured threshold.
Scores == {RELEVANCE_THRESHOLD - 1, RELEVANCE_THRESHOLD, RELEVANCE_THRESHOLD + 1}
Thresholds == {RELEVANCE_THRESHOLD - 1, RELEVANCE_THRESHOLD, RELEVANCE_THRESHOLD + 1}

\* The results of a search: the n-th carries article number n, so that each
\* can be told from the others.
ResultLists ==
    {[n \in DOMAIN scores |-> [article_number |-> n, score |-> scores[n]]] :
        scores \in SeqsUpTo(Scores, MaxResults)}

FilterInit ==
    /\ fPc = "input"
    /\ fResults \in ResultLists
    /\ fThreshold \in Thresholds
    /\ fRelevant = <<>>

FilterIdle ==
    /\ fPc = "unused"
    /\ fResults = <<>>
    /\ fThreshold = RELEVANCE_THRESHOLD
    /\ fRelevant = <<>>

\* relevant_docs = [r for r in results if r.score < settings.RELEVANCE_THRESHOLD]
FilterResults ==
    /\ fPc = "input"
    /\ fRelevant' = relevant_docs(fResults, fThreshold)
    /\ fPc' = "filtered"
    /\ UNCHANGED <<fResults, fThreshold>>
    /\ UNCHANGED notFilter

(***************************************************************************)
(* parser.py: process_directory, on drawn directories                      *)
(***************************************************************************)

\* A well-formed document with the given id, status and body.
SampleDoc(id, status, body) ==
    [readable |-> TRUE, wellformed |-> TRUE,
     etat |-> [present |-> TRUE, text |-> status],
     id |-> Some(id), num |-> Some(<<"R", "1">>),
     bloc |-> Elem(<<body>>), contenu |-> NoElem, contexte |-> NoElem]

\* What a file under the root may hold: a valid article, a repealed one, one
\* whose content is too short, and a file that is not XML.
DirDocs ==
    { SampleDoc(<<"I", "1">>, "VIGUEUR", <<"a", "b", "c", "d", "e">>),
      SampleDoc(<<"I", "2">>, "ABROGE", <<"a", "b", "c", "d", "e">>),
      SampleDoc(<<"I", "3">>, "VIGUEUR", <<"a", "b">>),
      BrokenDoc(TRUE) }

FileNames == { <<"a">> \o XmlSuffix, <<"a", ".", "t", "x", "t">>, <<"x", "m", "l">> }

DirEntries == [name : FileNames, depth : {0, 2}, doc : DirDocs]

\* The root does not exist, or holds up to MaxEntries files (none: empty).
Directories ==
    {[exists |-> FALSE, files |-> <<>>]} \cup
    {[exists |-> TRUE, files |-> fs] : fs \in SeqsUpTo(DirEntries, MaxEntries)}

DirInit ==
    /\ dPc = "input"
    /\ dDir \in Directories
    /\ dParsed = <<>>
    /\ dOut = <<>>

DirIdle ==
    /\ dPc = "unused"
    /\ dDir = [exists |-> FALSE, files |-> <<>>]
    /\ dParsed = <<>>
    /\ dOut = <<>>

\* The call process_directory(source_dir) on the drawn directory.
WalkDirectory ==
    /\ dPc = "input"
    /\ dParsed' = parsed_files(dDir)
    /\ dOut' = process_directory(dDir)
    /\ dPc' = "walked"
    /\ UNCHANGED dDir
    /\ UNCHANGED notDir

(***************************************************************************)
(* generation.py: TrafficGenerator._format_context, on drawn results       *)
(***************************************************************************)

\* A formatted text is the sequence of its pieces: the literal parts of the
\* f-strings, the texts put into them, and the numbers put into them.
Lit(s) == [kind |-> "lit", lit |-> s, text |-> <<>>, int |-> 0]
Txt(t) == [kind |-> "text", lit |-> "", text |-> t, int |-> 0]
Int_(n) == [kind |-> "int", lit |-> "", text |-> <<>>, int |-> n]

\* The four lines _format_context adds for the i-th result.
SourceSection(i, res) ==
    LET art == res.article
    IN  << Lit("\n--- SOURCE "), Int_(i), Lit(" : Article "), Txt(art.article_number),
           Lit(" ---\n"),
           Lit("Chemin : "), Txt(art.context), Lit("\n"),
           Lit("Contenu : "), Txt(art.content), Lit("\n"),
           Lit("URL : "), Txt(full_url(art)), Lit("\n") >>

\* Faulty variant: the sources are numbered from 0.
format_context_FromZero(results) ==
    LET RECURSIVE Sections(_)
        Sections(i) == IF i > Len(results) THEN <<>>
                       ELSE SourceSection(i - 1, results[i]) \o Sections(i + 1)
    IN  IF results = <<>> THEN <<Lit("AUCUN ARTICLE TROUVÉ.")>> ELSE Sections(1)

\* _format_context(results)
format_context(results) ==
    LET RECURSIVE Sections(_)
        Sections(i) == IF i > Len(results) THEN <<>>
                       ELSE SourceSection(i, results[i]) \o Sections(i + 1)
    IN  IF results = <<>> THEN <<Lit("AUCUN ARTICLE TROUVÉ.")>> ELSE Sections(1)

\* The results drawn: records that differ in number, context, content and url.
FormatArticles ==
    { [id |-> <<"I", n>>, article_number |-> <<"R", n>>, content |-> <<"a", "b", "c", "d", n>>,
       context |-> <<"C", n>>, url |-> u] : n \in {"1", "2"}, u \in {None, Some(<<"w">>)} }

FormatResults == {[article |-> a, score |-> RELEVANCE_THRESHOLD - 1] : a \in FormatArticles}

FormatInit ==
    /\ cPc = "input"
    /\ cResults \in SeqsUpTo(FormatResults, MaxResults)
    /\ cOut = <<>>

FormatIdle ==
    /\ cPc = "unused"
    /\ cResults = <<>>
    /\ cOut = <<>>

\* context_block = self._format_context(results)
FormatContext ==
    /\ cPc = "input"
    /\ cOut' = format_context(cResults)
    /\ cPc' = "formatted"
    /\ UNCHANGED cResults
    /\ UNCHANGED notFormat

(***************************************************************************)
(* retrieval.py: the rehydration of one hit, on drawn metadata             *)
(***************************************************************************)

\* The metadata of a hit: every subset of the four keys, or no dict at all.
Metas ==
    {NoMeta} \cup
    [present : {TRUE},
     article_id : {None, Some(<<"I", "1">>)},
     num : {None, Some(<<"R", "1">>)},
     category : {None, Some(<<"C">>)},
     url : {None, Some(<<"u", "/", "I", "1">>)}]

HitDocuments == {Some(ValidDocument), Some(ShortDocument), None}

NoHitResult == [ok |-> FALSE, result |-> [article |-> NoArticle, score |-> 0]]

HitInit ==
    /\ hPc = "input"
    /\ hResp \in [hits : {<<[meta |-> m, document |-> d]>> : m \in Metas, d \in HitDocuments},
                  distances : BOOLEAN]
    /\ hOut = NoHitResult

HitIdle ==
    /\ hPc = "unused"
    /\ hResp = NoResponse
    /\ hOut = NoHitResult

\* One pass of the rehydration loop, on the hit of the response.
Rehydrate ==
    /\ hPc = "input"
    /\ hOut' = RehydrateHit(hResp, 1)
    /\ hPc' = "rehydrated"
    /\ UNCHANGED hResp
    /\ UNCHANGED notHit

(***************************************************************************)
(* generation.py: TrafficGenerator.generate_stream, on drawn streams       *)
(***************************************************************************)

ErrorMessage == Lit("Une erreur est survenue lors de la génération de la réponse.")

\* What the stream delivers at one step: a chunk, whose text is a text, the
\* empty text or None, or a failure.
Chunk(text) == [fails |-> FALSE, text |-> text]
StreamFailure == [fails |-> TRUE, text |-> None]
Deliveries ==
    {Chunk(Some(<<"a">>)), Chunk(Some(<<"b", "c">>)), Chunk(Some(<<>>)), Chunk(None),
     StreamFailure}

\* Faulty variant: the exception is logged and raised again.
OnStreamError_Reraise == [raised |-> TRUE, yields |-> <<>>]

\* except Exception as e: ...; yield "Une erreur est survenue ..."
OnStreamError == [raised |-> FALSE, yields |-> <<ErrorMessage>>]

\* if chunk.text: yield chunk.text
ChunkYields(chunk) ==
    IF chunk.text.present /\ chunk.text.text # <<>> THEN <<Txt(chunk.text.text)>> ELSE <<>>

StreamInit ==
    /\ gPc = "called"
    /\ gCallOk \in BOOLEAN
    /\ gStream \in SeqsUpTo(Deliveries, MaxChunks)
    /\ gReceived = 0
    /\ gYielded = <<>>

StreamIdle ==
    /\ gPc = "unused"
    /\ gCallOk = FALSE
    /\ gStream = <<>>
    /\ gReceived = 0
    /\ gYielded = <<>>

\* self.client.models.generate_content_stream(...) returns or raises.
CallService ==
    /\ gPc = "called"
    /\ IF gCallOk
       THEN /\ gPc' = "streaming"
            /\ UNCHANGED gYielded
       ELSE /\ gPc' = IF OnStreamError.raised THEN "raised" ELSE "done"
            /\ gYielded' = gYielded \o OnStreamError.yields
    /\ UNCHANGED <<gCallOk, gStream, gReceived>>
    /\ UNCHANGED notStream

\* for chunk in response_stream: the next delivery is a chunk.
ReceiveChunk ==
    /\ gPc = "streaming"
    /\ gReceived < Len(gStream)
    /\ ~gStream[gReceived + 1].fails
    /\ gReceived' = gReceived + 1
    /\ gYielded' = gYielded \o ChunkYields(gStream[gReceived + 1])
    /\ UNCHANGED <<gPc, gCallOk, gStream>>
    /\ UNCHANGED notStream

\* for chunk in response_stream: the stream raises.
StreamFails ==
    /\ gPc = "streaming"
    /\ gReceived < Len(gStream)
    /\ gStream[gReceived + 1].fails
    /\ gReceived' = gReceived + 1
    /\ gPc' = IF OnStreamError.raised THEN "raised" ELSE "done"
    /\ gYielded' = gYielded \o OnStreamError.yields
    /\ UNCHANGED <<gCallOk, gStream>>
    /\ UNCHANGED notStream

\* for chunk in response_stream: the stream is exhausted.
StreamEnds ==
    /\ gPc = "streaming"
    /\ gReceived = Len(gStream)
    /\ gPc' = "done"
    /\ UNCHANGED <<gCallOk, gStream, gReceived, gYielded>>
    /\ UNCHANGED notStream

(***************************************************************************)
(* classifier.py: IntentClassifier.classify                                *)
(***************************************************************************)

Intents == {"LEGAL_QUERY", "CHITCHAT", "OFF_TOPIC"}

\* A JSON value, as far as _parse_response looks into it: an object with or
\* without the key "intent" (holding a string or a number), or a value that
\* is no object (a string, an array).
JsonObject(has_intent, is_string, value) ==
    [type |-> "object", has_intent |-> has_intent, is_string |-> is_string, value |-> value]
JsonOther(type) ==
    [type |-> type, has_intent |-> FALSE, is_string |-> FALSE, value |-> ""]

JsonValues ==
    {JsonObject(TRUE, TRUE, v) : v \in Intents \cup {"legal_query", ""}} \cup
    {JsonObject(TRUE, FALSE, "5"), JsonObject(FALSE, FALSE, ""),
     JsonOther("string"), JsonOther("array")}

\* What the LLM call gives: an exception, or a response whose text is None,
\* is no JSON, or is the JSON text of a value.
NoReply == [raises |-> FALSE, text |-> FALSE, json |-> FALSE, value |-> JsonOther("none")]
Replies ==
    {[raises |-> TRUE, text |-> FALSE, json |-> FALSE, value |-> JsonOther("none")],
     [raises |-> FALSE, text |-> FALSE, json |-> FALSE, value |-> JsonOther("none")],
     [raises |-> FALSE, text |-> TRUE, json |-> FALSE, value |-> JsonOther("none")]} \cup
    {[raises |-> FALSE, text |-> TRUE, json |-> TRUE, value |-> v] : v \in JsonValues}

\* The try of _parse_response: [exc, intent].  json.loads(None) is a
\* TypeError, text that is no JSON a JSONDecodeError; data["intent"] is a
\* TypeError on a value that is no object and a KeyError without the key;
\* Intent(value) is a ValueError for anything but the three names.
parse_response_try(reply) ==
    IF ~reply.text THEN [exc |-> "TypeError", intent |-> ""]
    ELSE IF ~reply.json THEN [exc |-> "JSONDecodeError", intent |-> ""]
    ELSE IF reply.value.type # "object" THEN [exc |-> "TypeError", intent |-> ""]
    ELSE IF ~reply.value.has_intent THEN [exc |-> "KeyError", intent |-> ""]
    ELSE IF ~(reply.value.is_string /\ reply.value.value \in Intents)
    THEN [exc |-> "ValueError", intent |-> ""]
    ELSE [exc |-> "none", intent |-> reply.value.value]

\* _parse_response(raw): [exc, intent]; its except clause takes the three
\* errors it names and lets any other pass.
parse_response(reply) ==
    LET r == parse_response_try(reply)
    IN  IF r.exc \in {"JSONDecodeError", "KeyError", "ValueError"}
        THEN [exc |-> "none", intent |-> "LEGAL_QUERY"]
        ELSE r

\* Faulty variant: classify has no handler, the exception leaves it.
OnClassifyError_Reraise(exc) == [raised |-> TRUE, intent |-> ""]

\* except Exception as e: ...; return Intent.LEGAL_QUERY
OnClassifyError(exc) == [raised |-> FALSE, intent |-> "LEGAL_QUERY"]

\* Faulty variant: the query is measured untrimmed.
classify_too_short_NoStrip(query) ==
    \/ ~query.present
    \/ query.text = <<>>
    \/ Len(query.text) < 2

\* not query or len(query.strip()) < 2
classify_too_short(query) ==
    \/ ~query.present
    \/ query.text = <<>>
    \/ Len(Strip(query.text)) < 2

\* The queries classify is called with.
ClassifyQueries == {None} \cup {Some(q) : q \in SeqsUpTo({" ", "a", "?"}, MaxQueryLen)}

ClassifyInit ==
    /\ kPc = "called"
    /\ kQuery \in ClassifyQueries
    /\ kReply = NoReply
    /\ kIntent = ""
    /\ llmCalls = 0

ClassifyIdle ==
    /\ kPc = "unused"
    /\ kQuery = None
    /\ kReply = NoReply
    /\ kIntent = ""
    /\ llmCalls = 0

\* classify is entered: the query guard.
ClassifyGuard ==
    /\ kPc = "called"
    /\ IF classify_too_short(kQuery)
       THEN kPc' = "returned" /\ kIntent' = "CHITCHAT"
       ELSE kPc' = "asking" /\ UNCHANGED kIntent
    /\ UNCHANGED <<kQuery, kReply, llmCalls>>
    /\ UNCHANGED notClassify

\* The LLM call and the parsing of what it gave.
ClassifyReply ==
    /\ kPc = "asking"
    /\ llmCalls' = llmCalls + 1
    /\ \E reply \in Replies :
          LET r == IF reply.raises THEN [exc |-> "APIError", intent |-> ""]
                   ELSE parse_response(reply)
              h == OnClassifyError(r.exc)
          IN  /\ kReply' = reply
              /\ IF r.exc = "none"
                 THEN kPc' = "returned" /\ kIntent' = r.intent
                 ELSE /\ kPc' = IF h.raised THEN "raised" ELSE "returned"
                      /\ kIntent' = h.intent
    /\ UNCHANGED kQuery
    /\ UNCHANGED notClassify

(***************************************************************************)
(* indexing.py main over a drawn artifact and a drawn store                *)
(***************************************************************************)

\* A record of the artifact as the ingestion run writes it, for article d.
Record(d) ==
    model_dump([id |-> <<"I", d>>, article_number |-> <<"R", d>>,
                content |-> <<"b", "o", "d", "y", " ", d>>, context |-> DefaultContext,
                url |-> None])

\* A record whose content fails validate_content_length.
ShortRecord ==
    model_dump([id |-> <<"I", "4">>, article_number |-> <<"R", "4">>,
                content |-> <<" ", "b", "o", " ">>, context |-> DefaultContext,
                url |-> None])

Records == {Record("1"), Record("2"), Record("3"), ShortRecord}

\* The artifact: missing, not JSON (a write that was cut short), or a JSON
\* array of records.
Artifacts ==
    {[exists |-> FALSE, json |-> FALSE, records |-> <<>>],
     [exists |-> TRUE, json |-> FALSE, records |-> <<>>]} \cup
    {[exists |-> TRUE, json |-> TRUE, records |-> r] : r \in SeqsUpTo(Records, MaxRecords)}

\* The entry an earlier run stored for an article of that id, number and content.
StoredEntry(d, num, content) ==
    LET a == [id |-> <<"I", d>>, article_number |-> num, content |-> content,
              context |-> DefaultContext, url |-> None]
    IN  [id |-> a.id, embedding |-> Embedding("RETRIEVAL_DOCUMENT", blob_for_embedding(a)),
         metadata |-> new_metadata(a), document |-> blob_for_embedding(a)]

\* The store as earlier runs left it: no collection, an empty one, or entries
\* of articles of the dataset (id 2), of articles whose content has changed
\* since (id 1) and of articles that have left the dataset (id 9).
Stores ==
    {[exists |-> FALSE, entries |-> <<>>],
     [exists |-> TRUE, entries |-> <<>>],
     [exists |-> TRUE, entries |-> <<StoredEntry("2", <<"R", "2">>, <<"b", "o", "d", "y", " ", "2">>)>>],
     [exists |-> TRUE, entries |-> <<StoredEntry("9", <<"R", "9">>, <<"b", "o", "d", "y", " ", "9">>),
                                     StoredEntry("1", <<"R", "1">>, <<"o", "l", "d", "e", "r">>)>>]}

IndexInit ==
    /\ etat = [f \in Files |-> "VIGUEUR"]
    /\ \E art \in Artifacts :
          /\ datasetExists = art.exists
          /\ datasetJson = art.json
          /\ dataset = art.records
    /\ \E st \in Stores :
          /\ collectionExists = st.exists
          /\ collection = st.entries
    /\ ixPc = "idle"
    /\ articles = <<>>
    /\ ixI = 0
    /\ new_articles = <<>>
    /\ attempts = 0
    /\ total_new_docs = 0
    /\ history = NoHistory
    /\ before = NoBefore

(***************************************************************************)
(* The query flows: app.py's interaction block and main.py's chat loop     *)
(***************************************************************************)

\* The texts a user enters.
Prompts == SeqsUpTo({" ", "a", "q"}, MaxQueryLen)

\* query.lower() in ['q', 'quit', 'exit']
IsQuit(query) == query \in {<<"q">>, <<"q", "u", "i", "t">>, <<"e", "x", "i", "t">>}

FlowInit ==
    /\ qPc = "prompt"
    /\ qFrontend \in {"app", "cli"}
    /\ qQuery = <<>>
    /\ qIntent = ""
    /\ qResults = <<>>
    /\ qRelevant = <<>>
    /\ qHanded = <<>>

FlowIdle ==
    /\ qPc = "unused"
    /\ qFrontend = "none"
    /\ qQuery = <<>>
    /\ qIntent = ""
    /\ qResults = <<>>
    /\ qRelevant = <<>>
    /\ qHanded = <<>>

\* app.py: a prompt is entered and classified.  OFF_TOPIC gets the fixed
\* answer, LEGAL_QUERY goes to the search, CHITCHAT to the generation with no
\* documents.
AppClassify ==
    /\ qFrontend = "app"
    /\ qPc = "prompt"
    /\ \E prompt \in Prompts \ {<<>>}, intent \in Intents :
          /\ qQuery' = prompt
          /\ qIntent' = intent
          /\ qPc' = CASE intent = "OFF_TOPIC" -> "answered"
                      [] intent = "LEGAL_QUERY" -> "searching"
                      [] OTHER -> "generating"
    /\ qResults' = <<>>
    /\ qRelevant' = <<>>
    /\ qHanded' = <<>>
    /\ UNCHANGED qFrontend
    /\ UNCHANGED notFlow

\* app.py: retriever.search(prompt, k=3) and the relevance filter.
AppSearch ==
    /\ qFrontend = "app"
    /\ qPc = "searching"
    /\ \E results \in ResultLists :
          /\ qResults' = results
          /\ qRelevant' = relevant_docs(results, RELEVANCE_THRESHOLD)
    /\ qPc' = "generating"
    /\ UNCHANGED <<qFrontend, qQuery, qIntent, qHanded>>
    /\ UNCHANGED notFlow

\* app.py: generator.generate_stream(prompt, relevant_docs).
AppGenerate ==
    /\ qFrontend = "app"
    /\ qPc = "generating"
    /\ qHanded' = qRelevant
    /\ qPc' = "answered"
    /\ UNCHANGED <<qFrontend, qQuery, qIntent, qResults, qRelevant>>
    /\ UNCHANGED notFlow

\* main.py: a question is read and stripped; a quit word leaves the loop, a
\* question of fewer than 3 characters is asked again.
CliQuery ==
    /\ qFrontend = "cli"
    /\ qPc \in {"prompt", "answered"}
    /\ \E line \in Prompts :
          LET query == Strip(line)
          IN  /\ qQuery' = query
              /\ qPc' = IF IsQuit(query) THEN "left"
                        ELSE IF Len(query) < 3 THEN "prompt"
                        ELSE "searching"
    /\ qResults' = <<>>
    /\ qHanded' = <<>>
    /\ UNCHANGED <<qFrontend, qIntent, qRelevant>>
    /\ UNCHANGED notFlow

\* main.py: results = retriever.search(query, k=3); without results the loop
\* asks again.
CliSearch ==
    /\ qFrontend = "cli"
    /\ qPc = "searching"
    /\ \E results \in ResultLists :
          /\ qResults' = results
          /\ qPc' = IF results = <<>> THEN "prompt" ELSE "generating"
    /\ UNCHANGED <<qFrontend, qQuery, qIntent, qRelevant, qHanded>>
    /\ UNCHANGED notFlow

\* main.py: generator.generate_stream(query, results).
CliGenerate ==
    /\ qFrontend = "cli"
    /\ qPc = "generating"
    /\ qHanded' = qResults
    /\ qPc' = "answered"
    /\ UNCHANGED <<qFrontend, qQuery, qIntent, qResults, qRelevant>>
    /\ UNCHANGED notFlow

(***************************************************************************)
(* Index then retrieve: the entry indexing.py writes for an article, and   *)
(* the record retrieval.py makes of a hit on it                            *)
(***************************************************************************)

\* The articles an indexing run loads: every valid construction over a few
\* ids, numbers, contexts and urls and every content text.
TripArticles ==
    LET made == {TrafficLawArticle(Some(id), Some(num), Some(content), Some(context), url) :
                    id \in {<<"I", "1">>},
                    num \in {<<"R", "1">>, <<>>},
                    content \in ContentTexts,
                    context \in {DefaultContext, <<"C", " ", ">", " ", "T">>},
                    url \in {None, Some(<<"x">>)}}
    IN  {r.article : r \in {m \in made : m.ok}}

\* The keys search reads from the metadata of a hit.
MetaKeysRead == {"article_id", "num", "category", "url"}

\* results['metadatas'][0][i] and results['documents'][0][i] for an entry of
\* the collection: the dict stored with it, read by key, and its document.
HitOn(entry) ==
    LET key(k) == IF k \in DOMAIN entry.metadata THEN entry.metadata[k] ELSE None
    IN  [meta |-> [present |-> TRUE, article_id |-> key("article_id"), num |-> key("num"),
                   category |-> key("category"), url |-> key("url")],
         document |-> Some(entry.document)]

TripInit ==
    /\ tPc = "loaded"
    /\ tArticle \in TripArticles
    /\ tStore = <<>>
    /\ tOut = NoHitResult

TripIdle ==
    /\ tPc = "unused"
    /\ tArticle = NoArticle
    /\ tStore = <<>>
    /\ tOut = NoHitResult

\* The indexing run adds the article, alone in its batch, to the collection.
TripAdd ==
    /\ tPc = "loaded"
    /\ LET new_docs == <<blob_for_embedding(tArticle)>>
       IN  tStore' = CollectionAdd(tStore, <<tArticle.id>>,
                         <<Embedding("RETRIEVAL_DOCUMENT", new_docs[1])>>,
                         <<new_metadata(tArticle)>>, new_docs).collection
    /\ tPc' = "stored"
    /\ UNCHANGED <<tArticle, tOut>>
    /\ UNCHANGED notTrip

\* A search whose query is answered with the entry: the rehydration of the hit.
TripQuery ==
    /\ tPc = "stored"
    /\ \E distances \in BOOLEAN :
          tOut' = RehydrateHit([hits |-> <<HitOn(tStore[1])>>, distances |-> distances], 1)
    /\ tPc' = "retrieved"
    /\ UNCHANGED <<tArticle, tStore>>
    /\ UNCHANGED notTrip

(***************************************************************************)
(* The pipeline specification: ingestion runs and indexing runs, one       *)
(* process at a time, over a raw dump whose statuses change.               *)
(***************************************************************************)

PipelineInit ==
    /\ etat \in [Files -> Etats]
    /\ datasetExists = FALSE
    /\ dataset = <<>>
    /\ collectionExists = FALSE
    /\ collection = <<>>
    /\ ixPc = "idle"
    /\ articles = <<>>
    /\ ixI = 0
    /\ new_articles = <<>>
    /\ attempts = 0
    /\ total_new_docs = 0
    /\ history = NoHistory
    /\ datasetJson = TRUE
    /\ before = NoBefore

PipelineIdle ==
    /\ etat = [f \in Files |-> "VIGUEUR"]
    /\ datasetExists = FALSE
    /\ dataset = <<>>
    /\ collectionExists = FALSE
    /\ collection = <<>>
    /\ ixPc = "idle"
    /\ articles = <<>>
    /\ ixI = 0
    /\ new_articles = <<>>
    /\ attempts = 0
    /\ total_new_docs = 0
    /\ history = NoHistory
    /\ datasetJson = TRUE
    /\ before = NoBefore

vars == <<pipelineVars, parseVars, searchVars, startVars, modelVars, filterVars,
    dirVars, formatVars, hitVars, streamVars, classifyVars, flowVars, tripVars>>

\* One component under check: the others stay as constructed.
OnlyPipeline == ParseIdle /\ SearchIdle /\ StartIdle /\ ModelIdle /\ FilterIdle /\
    DirIdle /\ FormatIdle /\ HitIdle /\ StreamIdle /\ ClassifyIdle /\ FlowIdle /\
    TripIdle
OnlyParse == PipelineIdle /\ SearchIdle /\ StartIdle /\ ModelIdle /\ FilterIdle /\
    DirIdle /\ FormatIdle /\ HitIdle /\ StreamIdle /\ ClassifyIdle /\ FlowIdle /\
    TripIdle
OnlySearch == PipelineIdle /\ ParseIdle /\ StartIdle /\ ModelIdle /\ FilterIdle /\
    DirIdle /\ FormatIdle /\ HitIdle /\ StreamIdle /\ ClassifyIdle /\ FlowIdle /\
    TripIdle
OnlyStart == PipelineIdle /\ ParseIdle /\ SearchIdle /\ ModelIdle /\ FilterIdle /\
    DirIdle /\ FormatIdle /\ HitIdle /\ StreamIdle /\ ClassifyIdle /\ FlowIdle /\
    TripIdle
OnlyModel == PipelineIdle /\ ParseIdle /\ SearchIdle /\ StartIdle /\ FilterIdle /\
    DirIdle /\ FormatIdle /\ HitIdle /\ StreamIdle /\ ClassifyIdle /\ FlowIdle /\
    TripIdle
OnlyFilter == PipelineIdle /\ ParseIdle /\ SearchIdle /\ StartIdle /\ ModelIdle /\
    DirIdle /\ FormatIdle /\ HitIdle /\ StreamIdle /\ ClassifyIdle /\ FlowIdle /\
    TripIdle
OnlyDir == PipelineIdle /\ ParseIdle /\ SearchIdle /\ StartIdle /\ ModelIdle /\
    FilterIdle /\ FormatIdle /\ HitIdle /\ StreamIdle /\ ClassifyIdle /\ FlowIdle /\
    TripIdle
OnlyFormat == PipelineIdle /\ ParseIdle /\ SearchIdle /\ StartIdle /\ ModelIdle /\
    FilterIdle /\ DirIdle /\ HitIdle /\ StreamIdle /\ ClassifyIdle /\ FlowIdle /\
    TripIdle
OnlyHit == PipelineIdle /\ ParseIdle /\ SearchIdle /\ StartIdle /\ ModelIdle /\
    FilterIdle /\ DirIdle /\ FormatIdle /\ StreamIdle /\ ClassifyIdle /\ FlowIdle /\
    TripIdle
OnlyStream == PipelineIdle /\ ParseIdle /\ SearchIdle /\ StartIdle /\ ModelIdle /\
    FilterIdle /\ DirIdle /\ FormatIdle /\ HitIdle /\ ClassifyIdle /\ FlowIdle /\
    TripIdle
OnlyClassify == PipelineIdle /\ ParseIdle /\ SearchIdle /\ StartIdle /\ ModelIdle /\
    FilterIdle /\ DirIdle /\ FormatIdle /\ HitIdle /\ StreamIdle /\ FlowIdle /\ TripIdle
OnlyFlow == PipelineIdle /\ ParseIdle /\ SearchIdle /\ StartIdle /\ ModelIdle /\
    FilterIdle /\ DirIdle /\ FormatIdle /\ HitIdle /\ StreamIdle /\ ClassifyIdle /\
    TripIdle
OnlyTrip == PipelineIdle /\ ParseIdle /\ SearchIdle /\ StartIdle /\ ModelIdle /\
    FilterIdle /\ DirIdle /\ FormatIdle /\ HitIdle /\ StreamIdle /\ ClassifyIdle /\
    FlowIdle

Init == PipelineInit /\ OnlyPipeline

Next ==
    \/ ParserMain
    \/ \E f \in Files : StatusChange(f)
    \/ RunStart
    \/ Load
    \/ Check
    \/ EmbedOk
    \/ EmbedFail
    \/ Add
    \/ Sleep
    \/ Interrupt

Spec == Init /\ [][Next]_vars

(***************************************************************************)
(* The extraction specification: parse_xml_file on every drawn document.   *)
(***************************************************************************)

ParseSpecInit == ParseInit /\ OnlyParse

ParseNext == ParseCall

ParseSpec == ParseSpecInit /\ [][ParseNext]_vars

(***************************************************************************)
(* The search specification: one search call on every drawn input.         *)
(***************************************************************************)

SearchSpecInit == SearchInit /\ OnlySearch

SearchNext ==
    \/ Validate
    \/ EmbedQueryOk
    \/ EmbedQueryFail
    \/ QueryOk
    \/ QueryFail

SearchSpec == SearchSpecInit /\ [][SearchNext]_vars

(***************************************************************************)
(* Properties of the pipeline (under Spec)                                 *)
(***************************************************************************)

Range(seq) == {seq[n] : n \in DOMAIN seq}

\* Some file that carries this id and number is VIGUEUR in the dump now.
CurrentlyVigueur(id, num) ==
    \E f \in Files : FileId(f) = id /\ FileNum(f) = num /\ etat[f] = "VIGUEUR"

C2_AlwaysCurrentlyVigueur ==
    /\ \A n \in DOMAIN dataset : CurrentlyVigueur(dataset[n].id, dataset[n].article_number)
    /\ \A n \in DOMAIN collection :
          CurrentlyVigueur(collection[n].id, collection[n].metadata.num.text)

\* C2 as amended: a record an ingestion run writes to the artifact belongs to
\* an article that is VIGUEUR when the run reads it, and an entry an indexing
\* run adds to the store is a record of the artifact; nothing removes a record
\* or an entry when the status changes afterwards.
C2_VigueurWhenIngested ==
    [][ /\ dataset' # dataset =>
              \A n \in DOMAIN dataset' :
                  CurrentlyVigueur(dataset'[n].id, dataset'[n].article_number)
        /\ \A e \in Range(collection') \ Range(collection) :
              \E n \in DOMAIN dataset :
                  /\ e.id = dataset[n].id
                  /\ e.metadata.num.text = dataset[n].article_number
                  /\ e.document = dataset[n].blob_for_embedding
      ]_vars

\* An entry of the store belongs to an article that was repealed after an
\* indexing run had persisted it.
C2_Witness ==
    \E n \in DOMAIN collection :
        ~CurrentlyVigueur(collection[n].id, collection[n].metadata.num.text)

\* C4: a run interrupted at any step and then re-run to completion over the
\* same dataset ends with the ids a single uninterrupted run gives, one entry
\* each: the collection only ever gains ids of the dataset, a completed run
\* leaves every id of the dataset in it, no embedding call and no add is
\* issued for an id the collection holds, and a run that completes after a
\* completed run over the same dataset adds 0 documents.
C4_RestartSafe ==
    [][ /\ ixPc' \in {"embed", "add"} =>
              IdsOf(new_articles') \cap IdsOf(collection') = {}
        /\ IdsOf(collection) \subseteq IdsOf(collection')
        /\ IdsOf(collection') \subseteq IdsOf(collection) \cup IdsOf(dataset)
        /\ (ixPc # "done" /\ ixPc' = "done") =>
              /\ IdsOf(dataset') \subseteq IdsOf(collection')
              /\ ~HasDuplicates(IdList(collection'))
              /\ history.completed => total_new_docs' = 0
      ]_vars

\* A run over a dataset completes after an earlier run over it was interrupted,
\* and adds documents the interrupted run had not added.
C4_Witness ==
    /\ ixPc = "done"
    /\ history.interrupted
    /\ total_new_docs > 0
    /\ total_new_docs < Len(collection)

\* C5 as stated: a run that got past data loading and terminated without an
\* embedding failure has every id of the loaded dataset in the collection.
C5_CompleteUnlessEmbeddingFails ==
    ixPc \in {"done", "store_failed"} => IdsOf(articles) \subseteq IdsOf(collection)

\* C6: the embedding call of a batch is attempted at most MAX_RETRIES times;
\* when every attempt has failed the failure leaves the run, and the run then
\* checks, embeds and adds nothing more (only a new run moves on).
C6_RetryCeiling ==
    [][ /\ attempts' <= MAX_RETRIES
        /\ ixPc' = "embed" => attempts' < MAX_RETRIES
        /\ (ixPc # "embed_failed" /\ ixPc' = "embed_failed") =>
              (ixPc = "embed" /\ attempts' = MAX_RETRIES)
        /\ ixPc = "embed_failed" =>
              /\ ixPc' \in {"embed_failed", "loading", "idle"}
              /\ collection' = collection
      ]_vars

\* A run gave up on a batch after MAX_RETRIES attempts with a later batch left.
C6_Witness ==
    /\ ixPc = "embed_failed"
    /\ attempts = MAX_RETRIES
    /\ ixI + BATCH_SIZE < Len(articles)

(***************************************************************************)
(* Properties of parse_xml_file (under ParseSpec)                          *)
(***************************************************************************)

\* C3: a document whose META_ARTICLE/ETAT text is not exactly "VIGUEUR"
\* (absent, or any other value) yields None whatever its other fields are,
\* and nothing but the status was extracted from it.
C3_NonVigueurRejected ==
    (pPc = "parsed" /\ ~(pDoc.etat.present /\ pDoc.etat.text = "VIGUEUR")) =>
        /\ ~pResult.ok
        /\ \A n \in DOMAIN pResult.steps : pResult.steps[n] \in {"parse", "status"}

\* An otherwise valid document that is not VIGUEUR was parsed.
C3_Witness ==
    /\ pPc = "parsed"
    /\ pDoc.etat.present /\ pDoc.etat.text = "MODIFIE"
    /\ pDoc.id.present /\ pDoc.num.present
    /\ Len(content_text(pDoc)) >= 5
    /\ pDoc.contexte.present

(***************************************************************************)
(* Properties of search (under SearchSpec)                                 *)
(***************************************************************************)

\* The positions of the response's hits that rehydrate.
GoodHits == {i \in DOMAIN sResp.hits : RehydrateHit(sResp, i).ok}

\* The j-th of them, in the store's order.
NthGoodHit(j) == CHOOSE i \in GoodHits : Cardinality({m \in GoodHits : m < i}) = j - 1

C8_AtMostK ==
    sPc = "returned" => Len(sResult) <= (IF sK.given THEN sK.n ELSE DEFAULT_TOP_K)

\* C9: a query that is empty or whose trimmed length is below 3 gets the empty
\* list, and neither the embedding service nor the collection is called.
C9_ShortQueryNoCalls ==
    (~sQuery.present \/ Len(Strip(sQuery.text)) < 3) =>
        /\ sPc \in {"called", "returned"}
        /\ sResult = <<>>
        /\ embedCalls = 0
        /\ queryCalls = 0

\* search returned for a query of 3 characters whose trimmed length is below 3.
C9_Witness ==
    /\ sPc = "returned"
    /\ sQuery.present
    /\ Len(sQuery.text) >= 3
    /\ Len(Strip(sQuery.text)) < 3

\* C10: when the query answered, search returns exactly the hits that
\* rehydrate, in the store's order, each with its own distance.
C10_PartialResults ==
    (sPc = "returned" /\ queryCalls = 1) =>
        /\ Len(sResult) = Cardinality(GoodHits)
        /\ \A j \in DOMAIN sResult :
              /\ sResult[j] = RehydrateHit(sResp, NthGoodHit(j)).result
              /\ sResult[j].score =
                    (IF sResp.distances THEN Distance(NthGoodHit(j)) ELSE 0)

\* A hit that fails stands before one that rehydrates, and search returned.
C10_Witness ==
    /\ sPc = "returned"
    /\ sResp.distances
    /\ \E i, j \in DOMAIN sResp.hits : i < j /\ i \notin GoodHits /\ j \in GoodHits

(***************************************************************************)
(* The start-up specification: front-ends started over every environment.  *)
(***************************************************************************)

StartSpecInit == StartInit /\ OnlyStart

StartNext ==
    \/ \E fe \in {"cli", "app"} : FrontendStart(fe)
    \/ SetupSystem
    \/ LoadSystemComponents
    \/ ConstructDirect
    \/ Shutdown
    \/ IndexingCreates

StartSpec == StartSpecInit /\ [][StartNext]_vars

(***************************************************************************)
(* Properties of the start-up (under StartSpec)                            *)
(***************************************************************************)

\* A front-end stopped at its path check, and no instance serves searches
\* unless the collection is there.
NoRetrieverWithoutDatabase ==
    /\ (frontend \in {"cli", "app"} /\ ~dbPath) => (stPc = "stopped" /\ ~retriever)
    /\ retriever => (dbPath /\ dbCollection)

\* C11 as stated: constructing a TrafficRetriever when the collection does not
\* exist fails with the RuntimeError that tells to run the ingestion script,
\* both front-ends stop when the path is absent, and no retriever is produced
\* without the collection.
C11_MissingCollectionIsRuntimeError ==
    /\ (frontend = "direct" /\ ~dbCollection) =>
          (stPc = "crashed" /\ stError = "RuntimeError")
    /\ NoRetrieverWithoutDatabase

\* C11 as amended: with the API key set, constructing a TrafficRetriever when
\* the collection does not exist fails with that RuntimeError; without the key
\* it fails with the ValueError about the key, whatever the database holds;
\* both front-ends stop when the path is absent, and no retriever is produced
\* without the collection.
C11_MissingCollectionFailsExplicitly ==
    /\ (frontend = "direct" /\ ~dbCollection) =>
          /\ stPc = "crashed"
          /\ stError = (IF apiKey THEN "RuntimeError" ELSE "ValueError")
    /\ NoRetrieverWithoutDatabase

\* A retriever was constructed on its own with the key set and no collection,
\* over a path that did not exist before (the client created it).
C11_Witness ==
    /\ frontend = "direct"
    /\ apiKey
    /\ dbPath
    /\ ~dbCollection
    /\ stError = "RuntimeError"

(***************************************************************************)
(* More properties of parse_xml_file (under ParseSpec)                     *)
(***************************************************************************)

\* C12: parse_xml_file never lets an exception reach its caller; for a file
\* that cannot be read, malformed XML, an absent ID or NUM element, or content
\* that fails validation it returns None.
C12_ParseNeverRaises ==
    pPc = "parsed" =>
        /\ ~pResult.raised
        /\ ( \/ ~pDoc.readable
             \/ ~pDoc.wellformed
             \/ ~pDoc.id.present
             \/ ~pDoc.num.present
             \/ ~validate_content_length(content_text(pDoc)) ) => ~pResult.ok

\* A file that cannot be read was parsed.
C12_Witness ==
    /\ pPc = "parsed"
    /\ ~pDoc.readable
    /\ ~pResult.ok

(***************************************************************************)
(* The record specification: one construction on every drawn argument set. *)
(***************************************************************************)

ModelSpecInit == ModelInit /\ OnlyModel

ModelNext ==
    \/ Construct
    \/ ModelDump

ModelSpec == ModelSpecInit /\ [][ModelNext]_vars

(***************************************************************************)
(* Properties of the Article Record (under ModelSpec)                      *)
(***************************************************************************)

\* The text without its leading and trailing whitespace, found by position:
\* the slice between the first and the last character that is no whitespace.
Solid(t) == {n \in DOMAIN t : t[n] \notin Whitespace}
TrimmedLen(t) ==
    IF Solid(t) = {} THEN 0
    ELSE (CHOOSE n \in Solid(t) : \A m \in Solid(t) : m <= n)
         - (CHOOSE n \in Solid(t) : \A m \in Solid(t) : n <= m) + 1

\* C13: the construction succeeds exactly when id, article_number, content and
\* context are all supplied and the content, trimmed, has at least 5
\* characters; on success the content field is the input, untouched.
C13_ConstructionIffValid ==
    mPc # "input" =>
        /\ mResult.ok <=>
              /\ mArgs.id.present
              /\ mArgs.article_number.present
              /\ mArgs.content.present
              /\ mArgs.context.present
              /\ TrimmedLen(mArgs.content.text) >= 5
        /\ mResult.ok => mResult.article.content = mArgs.content.text

\* A content with whitespace around 5 characters was accepted as it is.
C13_Witness ==
    /\ mPc = "constructed"
    /\ mResult.ok
    /\ Len(mResult.article.content) > 5
    /\ TrimmedLen(mResult.article.content) = 5

\* C14: blob_for_embedding is context, " \nArticle ", article_number, " : "
\* and content, one after the other; a record that differs in id and url only
\* has the same blob.
C14_BlobFormat ==
    mPc = "dumped" =>
        LET a == mResult.article
            b == mDump.blob_for_embedding
            c == Len(a.context)
            n == Len(a.article_number)
        IN  /\ Len(b) = c + 10 + n + 3 + Len(a.content)
            /\ SubSeq(b, 1, c) = a.context
            /\ SubSeq(b, c + 1, c + 10) = <<" ", "\n", "A", "r", "t", "i", "c", "l", "e", " ">>
            /\ SubSeq(b, c + 11, c + 10 + n) = a.article_number
            /\ SubSeq(b, c + 11 + n, c + 13 + n) = <<" ", ":", " ">>
            /\ SubSeq(b, c + 14 + n, Len(b)) = a.content
            /\ \A id \in ArgIds, url \in ArgUrls :
                  model_dump([a EXCEPT !.id = id, !.url = url]).blob_for_embedding = b

\* A record whose content starts with whitespace was dumped.
C14_Witness ==
    /\ mPc = "dumped"
    /\ mDump.content[1] = "\n"
    /\ mDump.url.present

(***************************************************************************)
(* The filter specification: one filtering of every drawn result list.     *)
(***************************************************************************)

FilterSpecInit == FilterInit /\ OnlyFilter

FilterNext == FilterResults

FilterSpec == FilterSpecInit /\ [][FilterNext]_vars

(***************************************************************************)
(* Properties of the relevance filter (under FilterSpec)                   *)
(***************************************************************************)

\* The positions of the results whose score is strictly below the threshold.
BelowThreshold == {i \in DOMAIN fResults : fResults[i].score < fThreshold}

\* The j-th of them, in the order of the list.
NthBelow(j) ==
    CHOOSE i \in BelowThreshold : Cardinality({m \in BelowThreshold : m < i}) = j - 1

\* C15: the filter keeps exactly the results whose score is strictly less
\* than the threshold, in their original order; a score equal to the
\* threshold is left out.
C15_StrictlyBelowThreshold ==
    fPc = "filtered" =>
        /\ Len(fRelevant) = Cardinality(BelowThreshold)
        /\ \A j \in DOMAIN fRelevant : fRelevant[j] = fResults[NthBelow(j)]
        /\ \A j \in DOMAIN fRelevant : fRelevant[j].score # fThreshold

\* A list with a score equal to the configured threshold, standing before a
\* score that passes, was filtered.
C15_Witness ==
    /\ fPc = "filtered"
    /\ fThreshold = RELEVANCE_THRESHOLD
    /\ \E i, j \in DOMAIN fResults :
          /\ i < j
          /\ fResults[i].score = fThreshold
          /\ fResults[j].score < fThreshold
    /\ fRelevant # <<>>

(***************************************************************************)
(* The walk specification: process_directory on every drawn directory.     *)
(***************************************************************************)

DirSpecInit == DirInit /\ OnlyDir

DirNext == WalkDirectory

DirSpec == DirSpecInit /\ [][DirNext]_vars

(***************************************************************************)
(* Properties of process_directory (under DirSpec)                         *)
(***************************************************************************)

\* The positions of the files under the root whose name ends in ".xml".
XmlPositions == {i \in DOMAIN dDir.files : EndsWith(dDir.files[i].name, XmlSuffix)}

\* Those among them whose document parse_xml_file turns into a record.
RecordPositions == {i \in XmlPositions : parse_xml_file(dDir.files[i].doc).ok}

\* The j-th position of a set of positions, in walk order.
NthOf(positions, j) ==
    CHOOSE i \in positions : Cardinality({m \in positions : m < i}) = j - 1

\* C16: process_directory returns exactly the records parse_xml_file gives
\* for the files under the root, at any depth, whose name ends in ".xml", in
\* walk order; no other file is parsed; a root that does not exist or is
\* empty gives the empty list.
C16_ExactlyTheXmlFiles ==
    dPc = "walked" =>
        /\ Len(dParsed) = Cardinality(XmlPositions)
        /\ \A j \in DOMAIN dParsed : dParsed[j] = dDir.files[NthOf(XmlPositions, j)]
        /\ Len(dOut) = Cardinality(RecordPositions)
        /\ \A j \in DOMAIN dOut :
              dOut[j] = parse_xml_file(dDir.files[NthOf(RecordPositions, j)].doc).article
        /\ (~dDir.exists \/ dDir.files = <<>>) => dOut = <<>>

\* A directory with a valid article in a file that is no ".xml" file, and a
\* valid one deeper down in a ".xml" file, was walked.
C16_Witness ==
    /\ dPc = "walked"
    /\ Len(dOut) = 1
    /\ \E i, j \in DOMAIN dDir.files :
          /\ i # j
          /\ ~EndsWith(dDir.files[i].name, XmlSuffix)
          /\ parse_xml_file(dDir.files[i].doc).ok
          /\ EndsWith(dDir.files[j].name, XmlSuffix)
          /\ dDir.files[j].depth = 2

(***************************************************************************)
(* The formatting specification: _format_context on every drawn list.      *)
(***************************************************************************)

FormatSpecInit == FormatInit /\ OnlyFormat

FormatNext == FormatContext

FormatSpec == FormatSpecInit /\ [][FormatNext]_vars

(***************************************************************************)
(* Properties of _format_context (under FormatSpec)                        *)
(***************************************************************************)

\* The positions of the text where a source header starts.
SourceHeaders == {p \in DOMAIN cOut : cOut[p] = Lit("\n--- SOURCE ")}

\* The pieces of the section that starts at header p, up to the next header.
SectionAt(p) ==
    LET later == {q \in SourceHeaders : q > p}
        end == IF later = {} THEN Len(cOut)
               ELSE (CHOOSE q \in later : \A r \in later : q <= r) - 1
    IN  SubSeq(cOut, p, end)

\* The texts a section carries after a given label.
After(section, label) ==
    {section[p + 1].text : p \in {q \in 1..(Len(section) - 1) : section[q] = Lit(label)}}

\* C17: for no result the text is the sentinel alone; for n results it has n
\* sections, headed SOURCE 1 to SOURCE n in input order, and section i holds
\* the article number, the context path, the content and the citation URL of
\* the i-th result.
C17_FormatContext ==
    cPc = "formatted" =>
        /\ cResults = <<>> => cOut = <<Lit("AUCUN ARTICLE TROUVÉ.")>>
        /\ cResults # <<>> =>
              /\ Cardinality(SourceHeaders) = Len(cResults)
              /\ cOut[1] = Lit("\n--- SOURCE ")
              /\ \A i \in DOMAIN cResults :
                    LET p == NthOf(SourceHeaders, i)
                        section == SectionAt(p)
                        art == cResults[i].article
                    IN  /\ section[2] = Int_(i)
                        /\ After(section, " : Article ") = {art.article_number}
                        /\ After(section, "Chemin : ") = {art.context}
                        /\ After(section, "Contenu : ") = {art.content}
                        /\ After(section, "URL : ") = {full_url(art)}

\* Two different results were formatted, the second with no url of its own.
C17_Witness ==
    /\ cPc = "formatted"
    /\ Len(cResults) >= 2
    /\ cResults[1].article.article_number # cResults[2].article.article_number
    /\ ~cResults[2].article.url.present
    /\ Len(cOut) > 1

(***************************************************************************)
(* The rehydration specification: one hit of every drawn shape.            *)
(***************************************************************************)

HitSpecInit == HitInit /\ OnlyHit

HitNext == Rehydrate

HitSpec == HitSpecInit /\ [][HitNext]_vars

(***************************************************************************)
(* Properties of the rehydration (under HitSpec)                           *)
(***************************************************************************)

\* C18: a hit with valid document text and a metadata dict rehydrates without
\* exception, whatever keys the dict lacks: id, article_number and context are
\* the value of their key when it is there and "unknown", "N/A" and the root
\* label when it is not, and url is the value of its key or None.
C18_DefaultsForMissingKeys ==
    (hPc = "rehydrated" /\ hResp.hits[1].meta.present
                        /\ hResp.hits[1].document = Some(ValidDocument)) =>
        LET meta == hResp.hits[1].meta
            art == hOut.result.article
        IN  /\ hOut.ok
            /\ art.id = (IF meta.article_id.present THEN meta.article_id.text
                         ELSE <<"u", "n", "k", "n", "o", "w", "n">>)
            /\ art.article_number = (IF meta.num.present THEN meta.num.text
                                     ELSE <<"N", "/", "A">>)
            /\ art.context = (IF meta.category.present THEN meta.category.text
                              ELSE DefaultContext)
            /\ art.url = meta.url
            /\ art.content = ValidDocument

\* A hit whose metadata has none of the keys was rehydrated.
C18_Witness ==
    /\ hPc = "rehydrated"
    /\ hResp.hits[1].meta = EmptyMeta
    /\ hOut.ok
    /\ hOut.result.article.id = Text_unknown

(***************************************************************************)
(* The generation specification: generate_stream on every drawn stream.    *)
(***************************************************************************)

StreamSpecInit == StreamInit /\ OnlyStream

StreamNext ==
    \/ CallService
    \/ ReceiveChunk
    \/ StreamFails
    \/ StreamEnds

StreamSpec == StreamSpecInit /\ [][StreamNext]_vars

(***************************************************************************)
(* Properties of generate_stream (under StreamSpec)                        *)
(***************************************************************************)

\* The positions of the stream that hold a failure.
FailurePositions == {p \in DOMAIN gStream : gStream[p].fails}

\* The chunks the generator receives: those before the first failure.
ChunksReceived ==
    IF ~gCallOk THEN {}
    ELSE {p \in DOMAIN gStream : ~gStream[p].fails /\ \A q \in FailurePositions : p < q}

\* Those among them that carry text.
TextChunks ==
    {p \in ChunksReceived : gStream[p].text.present /\ gStream[p].text.text # <<>>}

GenerationFailed == ~gCallOk \/ FailurePositions # {}

\* C19: generate_stream yields the non-empty text of each chunk received, in
\* order; when the call or the stream fails it yields the fixed message as
\* its last fragment and ends; no exception reaches the consumer.
C19_StreamOrFixedMessage ==
    /\ gPc # "raised"
    /\ gPc = "done" =>
          /\ Len(gYielded) = Cardinality(TextChunks) + (IF GenerationFailed THEN 1 ELSE 0)
          /\ \A j \in 1..Cardinality(TextChunks) :
                gYielded[j] = Txt(gStream[NthOf(TextChunks, j)].text.text)
          /\ GenerationFailed => gYielded[Len(gYielded)] = ErrorMessage

\* The stream failed after a chunk with text and one without had come.
C19_Witness ==
    /\ gPc = "done"
    /\ Len(gYielded) = 2
    /\ gYielded[2] = ErrorMessage
    /\ gReceived = 3
    /\ gStream[3].fails

(***************************************************************************)
(* The classification specification: classify on every drawn input.        *)
(***************************************************************************)

ClassifySpecInit == ClassifyInit /\ OnlyClassify

ClassifyNext ==
    \/ ClassifyGuard
    \/ ClassifyReply

ClassifySpec == ClassifySpecInit /\ [][ClassifyNext]_vars

(***************************************************************************)
(* Properties of classify (under ClassifySpec)                             *)
(***************************************************************************)

\* The reply is a response whose text is the JSON text of an object whose
\* "intent" key holds one of the three names.
NamesAnIntent(reply) ==
    /\ ~reply.raises /\ reply.text /\ reply.json
    /\ reply.value.type = "object" /\ reply.value.has_intent
    /\ reply.value.is_string /\ reply.value.value \in Intents

\* C20: classify never raises and returns one of the three intents: CHITCHAT
\* with no LLM call for an empty query or one whose trimmed length is below 2,
\* the intent the LLM response names when it names one, and LEGAL_QUERY for
\* every other outcome of the call.
C20_ClassifyTotal ==
    /\ kPc # "raised"
    /\ (~kQuery.present \/ TrimmedLen(kQuery.text) < 2) =>
          /\ kPc \in {"called", "returned"}
          /\ llmCalls = 0
    /\ kPc = "returned" =>
          /\ kIntent \in Intents
          /\ kIntent = ( IF ~kQuery.present \/ TrimmedLen(kQuery.text) < 2 THEN "CHITCHAT"
                         ELSE IF NamesAnIntent(kReply) THEN kReply.value.value
                         ELSE "LEGAL_QUERY" )

\* The response text was JSON but no object, and classify returned.
C20_Witness ==
    /\ kPc = "returned"
    /\ llmCalls = 1
    /\ kReply.json
    /\ kReply.value.type = "array"
    /\ kIntent = "LEGAL_QUERY"

(***************************************************************************)
(* Properties of the batches of an indexing run (under Spec)               *)
(***************************************************************************)

\* Every id of the batch at hand is in the collection.
BatchPresent == IdsOf(batch_articles) \subseteq IdsOf(collection)

\* The step is one of the indexing run, not one of its surroundings.
RunSteps == <<ixPc, ixI, attempts>>' # <<ixPc, ixI, attempts>>

\* C21 as stated: for a batch whose ids are all in the collection already,
\* the run makes no embedding call, no add and no sleep, and goes straight to
\* the next batch (or to its end after the last one); only a kill of the
\* process stops it there.
C21_PresentBatchSkipped ==
    [][ (ixPc = "check" /\ BatchPresent /\ RunSteps) =>
            \/ /\ ixPc' = (IF ixI + BATCH_SIZE < Len(articles) THEN "check" ELSE "done")
               /\ ixI' = ixI + BATCH_SIZE
               /\ collection' = collection
               /\ total_new_docs' = total_new_docs
            \/ ixPc' = "idle"
      ]_vars

\* C22 as stated: the run sleeps after every batch, whether or not the batch
\* performed an add: it moves to the next batch, or out of the loop, only
\* from the sleep.
C22_SleepAfterEveryBatch ==
    [][ (RunSteps /\ ixPc \in Running /\ ixI' = ixI + BATCH_SIZE) => ixPc = "sleep" ]_vars

\* C22 as amended: the run sleeps after every batch that performed an add and
\* after no other: a batch skipped for want of new records is not followed by
\* the sleep, the run goes on to the next batch at once.
C22_SleepAfterAddOnly ==
    [][ RunSteps =>
            /\ (ixPc = "add" /\ collection' # collection) => ixPc' = "sleep"
            /\ ixPc' = "sleep" => (ixPc = "add" /\ collection' # collection)
            /\ (ixPc = "check" /\ NewArticles(batch_articles, collection) = <<>>) =>
                  ixPc' # "sleep"
            /\ (ixPc \in Running /\ ixI' = ixI + BATCH_SIZE) =>
                  \/ ixPc = "sleep"
                  \/ ixPc = "check" /\ NewArticles(batch_articles, collection) = <<>>
      ]_vars

\* The run stands at its second batch; the first batch was skipped, all its
\* ids being in the store, and nothing was added.
C22_Witness ==
    /\ ixPc = "check"
    /\ ixI = BATCH_SIZE
    /\ total_new_docs = 0
    /\ before.known
    /\ IdsOf(SubSeq(articles, 1, BATCH_SIZE)) \subseteq IdsOf(before.entries)

(***************************************************************************)
(* The indexing specification: indexing runs, one at a time, over every    *)
(* drawn artifact and store.                                               *)
(***************************************************************************)

IndexSpecInit == IndexInit /\ OnlyPipeline

IndexNext ==
    \/ RunStart
    \/ Load
    \/ Check
    \/ EmbedOk
    \/ EmbedFail
    \/ Add
    \/ Sleep
    \/ Interrupt

IndexSpec == IndexSpecInit /\ [][IndexNext]_vars

(***************************************************************************)
(* Properties of an indexing run over a drawn artifact (under IndexSpec)   *)
(***************************************************************************)

\* The records of the batches before the one at hand.
Processed == SubSeq(articles, 1, ixI)

\* The entries the store has gained since the run found it.
AddedEntries == SubSeq(collection, Len(before.entries) + 1, Len(collection))

\* The store holds what the run found plus, once each, the new records of the
\* batches before the one at hand, and nothing of this batch or a later one.
WholeBatchesOnly ==
    /\ before.known
    /\ Len(collection) >= Len(before.entries)
    /\ SubSeq(collection, 1, Len(before.entries)) = before.entries
    /\ IdsOf(AddedEntries) = IdsOf(Processed) \ IdsOf(before.entries)
    /\ Len(AddedEntries) = Cardinality(IdsOf(AddedEntries))
    /\ \A n \in DOMAIN AddedEntries :
          \E m \in 1..ixI :
              /\ AddedEntries[n].id = articles[m].id
              /\ AddedEntries[n].document = blob_for_embedding(articles[m])
              /\ AddedEntries[n].metadata = new_metadata(articles[m])

\* C23: when a run aborts on embedding-retry exhaustion in batch j, the
\* collection holds the entries it held before the run plus the new records of
\* the batches before j; no record of batch j or of a later batch has been
\* added, and the collection only ever grows by the new records of one whole
\* batch.
C23_AbortKeepsWholeBatches ==
    [][ /\ ixPc' = "embed_failed" => WholeBatchesOnly'
        /\ collection' # collection =>
              /\ ixPc = "add"
              /\ IdList(collection') = IdList(collection) \o IdList(new_articles)
      ]_vars

\* A run over a store that held entries gave up in its second batch, after
\* the first batch had been added.
C23_Witness ==
    /\ ixPc = "embed_failed"
    /\ ixI = BATCH_SIZE
    /\ total_new_docs > 0
    /\ before.entries # <<>>
    /\ Len(collection) > Len(before.entries)

\* The artifact is missing, is not JSON, or holds an element whose content,
\* trimmed, has fewer than 5 characters.
ArtifactUnusable ==
    \/ ~datasetExists
    \/ ~datasetJson
    \/ \E n \in DOMAIN dataset : TrimmedLen(dataset[n].content) < 5

\* C24: over an artifact that is missing, is not JSON or holds an element
\* that fails validation, a run processes no batch: it ends at the load, makes
\* no existence check, no embedding call and no add, and no entry of the
\* collection changes.
C24_UnusableArtifactNoBatch ==
    [][ ArtifactUnusable =>
            /\ ixPc' \in {"idle", "loading", "load_failed"}
            /\ articles' = <<>>
            /\ new_articles' = <<>>
            /\ attempts' = 0
            /\ total_new_docs' = 0
            /\ collection' = collection
      ]_vars

\* A run over an artifact with valid records and one invalid record, and a
\* store that holds entries, has ended at the load.
C24_Witness ==
    /\ ixPc = "load_failed"
    /\ datasetExists /\ datasetJson
    /\ \E m, n \in DOMAIN dataset :
          /\ TrimmedLen(dataset[m].content) >= 5
          /\ TrimmedLen(dataset[n].content) < 5
    /\ collection # <<>>
    /\ collection = before.entries

\* The entries the store holds under an id.
EntriesOf(coll, id) == {coll[n] : n \in {m \in DOMAIN coll : coll[m].id = id}}

\* C29: an indexing run never modifies or deletes an entry the collection
\* holds: at every step, and from the start of a run to any later point of it,
\* each id that was present keeps its embedding, document text and metadata,
\* also when the dataset carries other content for the id or no longer lists
\* it.
C29_ExistingEntriesKept ==
    [][ /\ \A id \in IdsOf(collection) :
              EntriesOf(collection', id) = EntriesOf(collection, id)
        /\ before'.known =>
              \A id \in IdsOf(before'.entries) :
                  EntriesOf(collection', id) = EntriesOf(before'.entries, id)
      ]_vars

\* A run that added records has completed over a dataset that carries other
\* content for one id the store held before the run and no longer lists
\* another.
C29_Witness ==
    /\ ixPc = "done"
    /\ total_new_docs > 0
    /\ \E n \in DOMAIN before.entries : \E m \in DOMAIN articles :
          /\ articles[m].id = before.entries[n].id
          /\ blob_for_embedding(articles[m]) # before.entries[n].document
    /\ \E n \in DOMAIN before.entries : before.entries[n].id \notin IdsOf(articles)

\* C30 as stated: a run that aborts at data loading leaves the vector store as
\* it found it, the collection not created included; so where the store held
\* no collection before such a run, constructing a TrafficRetriever (key set,
\* database directory openable) still fails afterwards.
C30_FailedLoadLeavesStore ==
    (ixPc = "load_failed" /\ before.known) =>
        /\ collectionExists = before.exists
        /\ collection = before.entries
        /\ ~before.exists => ~TrafficRetriever_init(TRUE, TRUE, collectionExists, TRUE).ok

(***************************************************************************)
(* Properties of the calls a search makes (under SearchSpec)               *)
(***************************************************************************)

\* C25: one search calls the embedding service at most once and the
\* collection at most once; the collection is queried only after the
\* embedding call has succeeded, and when the embedding call fails search
\* returns the empty list and the collection is not touched.
C25_NoRetryAtSearch ==
    [][ /\ embedCalls' <= 1
        /\ queryCalls' <= 1
        /\ queryCalls' # queryCalls => (sPc = "querying" /\ embedCalls = 1)
        /\ sPc' = "querying" => (sPc = "embedding" /\ embedCalls' = 1)
        /\ (sPc = "embedding" /\ sPc' # "querying") =>
              /\ sPc' = "returned"
              /\ sResult' = <<>>
              /\ queryCalls' = 0
        /\ sPc \in {"returned", "raised"} => UNCHANGED searchVars
      ]_vars

\* The embedding call of a search failed and search returned.
C25_Witness ==
    /\ sPc = "returned"
    /\ embedCalls = 1
    /\ queryCalls = 0
    /\ sResult = <<>>

(***************************************************************************)
(* The query-flow specification: one prompt in the app, the chat loop of   *)
(* the CLI.                                                                *)
(***************************************************************************)

FlowSpecInit == FlowInit /\ OnlyFlow

FlowNext ==
    \/ AppClassify
    \/ AppSearch
    \/ AppGenerate
    \/ CliQuery
    \/ CliSearch
    \/ CliGenerate

FlowSpec == FlowSpecInit /\ [][FlowNext]_vars

(***************************************************************************)
(* Properties of the query flows (under FlowSpec)                          *)
(***************************************************************************)

\* C26 as stated: in both front-ends, every retrieval result handed to
\* generate_stream has a score strictly below RELEVANCE_THRESHOLD.
C26_OnlyRelevantGenerated ==
    \A n \in DOMAIN qHanded : qHanded[n].score < RELEVANCE_THRESHOLD

(***************************************************************************)
(* Properties of the content extraction (under ParseSpec)                  *)
(***************************************************************************)

\* The characters of a text that are not whitespace.
Squeeze(t) == SelectSeq(t, LAMBDA c : c \notin Whitespace)

\* The text fragments of an element, end to end.
RECURSIVE Flat(_)
Flat(frags) == IF frags = <<>> THEN <<>> ELSE Head(frags) \o Flat(Tail(frags))

\* t is the whitespace-normalized text of the element: the same characters
\* in the same order, words parted by one space, no whitespace at either end.
NormalizedTextOf(t, elem) ==
    /\ t = (IF elem.present THEN clean_text(elem.frags) ELSE <<>>)
    /\ Squeeze(t) = (IF elem.present THEN Squeeze(Flat(elem.frags)) ELSE <<>>)
    /\ \A n \in DOMAIN t : t[n] \in Whitespace =>
          /\ t[n] = " "
          /\ 1 < n /\ n < Len(t)
          /\ t[n + 1] \notin Whitespace

\* The normalized text of an element (none for an absent element).
TextUnder(elem) == IF elem.present THEN clean_text(elem.frags) ELSE <<>>

\* C27: for a VIGUEUR document with an id and a number, the content is the
\* normalized text under BLOC_TEXTUEL when that text is non-empty (a record
\* is made of it when it has 5 characters or more, CONTENU is not read);
\* when that text is empty, the element absent or present, and the normalized
\* text under CONTENU has 5 characters or more, a record is returned whose
\* content is that text; with no usable text in either place the result is
\* None.
C27_ContentAndFallback ==
    (/\ pPc = "parsed"
     /\ pDoc.readable /\ pDoc.wellformed
     /\ pDoc.etat.present /\ pDoc.etat.text = "VIGUEUR"
     /\ pDoc.id.present /\ pDoc.num.present) =>
        LET b == TextUnder(pDoc.bloc)
            c == TextUnder(pDoc.contenu)
        IN  /\ b # <<>> =>
                  /\ pResult.ok = (Len(b) >= 5)
                  /\ pResult.ok => NormalizedTextOf(pResult.article.content, pDoc.bloc)
            /\ (b = <<>> /\ Len(c) >= 5) =>
                  /\ pResult.ok
                  /\ NormalizedTextOf(pResult.article.content, pDoc.contenu)
            /\ (Len(b) < 5 /\ Len(c) < 5) => ~pResult.ok
            /\ ~pResult.raised

\* A document whose BLOC_TEXTUEL is present but holds no text, and whose
\* CONTENU holds text, gave a record.
C27_Witness ==
    /\ pPc = "parsed"
    /\ pDoc.bloc.present
    /\ pDoc.bloc.frags # <<>>
    /\ TextUnder(pDoc.bloc) = <<>>
    /\ Len(pDoc.contenu.frags) = 2
    /\ pResult.ok
    /\ pResult.article.content = <<"a", "b", "c", "d", "e", " ", "a", "b", "c", "d", "e">>

(***************************************************************************)
(* The round-trip specification: every drawn article is indexed, then      *)
(* retrieved.                                                              *)
(***************************************************************************)

TripSpecInit == TripInit /\ OnlyTrip

TripNext ==
    \/ TripAdd
    \/ TripQuery

TripSpec == TripSpecInit /\ [][TripNext]_vars

(***************************************************************************)
(* Properties of the round trip (under TripSpec)                           *)
(***************************************************************************)

\* C28: a hit on the entry of an article the indexing run stored rehydrates,
\* without a default, into a record with the id, article_number and context
\* of the original, whose content is the original's blob_for_embedding and
\* whose url is the original's full_url; the metadata keys written are the
\* keys read.
C28_RoundTrip ==
    /\ tPc \in {"stored", "retrieved"} =>
          /\ Len(tStore) = 1
          /\ DOMAIN tStore[1].metadata = MetaKeysRead
          /\ \A k \in MetaKeysRead : tStore[1].metadata[k].present
    /\ tPc = "retrieved" =>
          /\ tOut.ok
          /\ tOut.result.article.id = tArticle.id
          /\ tOut.result.article.article_number = tArticle.article_number
          /\ tOut.result.article.context = tArticle.context
          /\ tOut.result.article.content =
                tArticle.context \o <<" ", "\n", "A", "r", "t", "i", "c", "l", "e", " ">>
                    \o tArticle.article_number \o <<" ", ":", " ">> \o tArticle.content
          /\ tOut.result.article.url = Some(<<"u", "/">> \o tArticle.id)

\* An article with an empty number, a url of its own and content that ends in
\* whitespace was stored and retrieved.
C28_Witness ==
    /\ tPc = "retrieved"
    /\ tOut.ok
    /\ tArticle.article_number = <<>>
    /\ tArticle.url.present
    /\ tArticle.content[Len(tArticle.content)] = "\n"

====
